---- MODULE Spec2Model ----
(***************************************************************************)
(* Verification model of the time-synchronised keyframe sampler            *)
(* (utils/interpolation.ts), the scene derivation in App.tsx and the       *)
(* edit / feedback coordination of Scene3DView.tsx and PerspectiveView.tsx *)
(***************************************************************************)
EXTENDS Integers, Sequences, FiniteSets, TLC

VARIABLES
    \* --- sampling a track and deriving the scene (App.tsx render)
    track,          \* keyframe sequence handed to findSegment
    scene,          \* activeSceneData: characters and camera
    sTime,          \* currentTime consumed by the sampler
    seg,            \* result of findSegment, or NoValue
    sampled,        \* result of interpolate over seg, or NoValue
    derived,        \* characterPositions / currentCameraPosition, or NoValue
    sPc,            \* "init", "found", "sampled", "derived"
    \* --- direct calls of interpolate
    iArgs,          \* [val1, val2, time1, time2]
    iCalls,         \* the last two calls [x, res] of interpolate on iArgs, latest last
    \* --- Scene3DView / PerspectiveView
    sinceCall,              \* ms since the last call of triggerFeedback, saturating at DebounceMs
    localAnalysis,          \* Scene3DView state: the SceneState being edited
    viewMode,               \* "2d" or "3d"
    draggedItem,            \* DraggedItem of the 2D view, or Null
    dynamicFeedback,        \* the feedback slot, or Null
    isFetchingFeedback,     \* the in-flight flag
    feedbackRequestTimer,   \* ref: id of the timer armed last, 0 before the first
    pendingTimers,          \* timers armed and neither fired nor cleared
    inFlight,               \* ids of feedback requests awaiting their answer
    mountAnalysis,          \* `analysis` closed over by PerspectiveView's mount effect
    calls,                  \* history: per call of triggerFeedback, the gap since the call before
    lastCall,               \* history: arguments of the latest call of triggerFeedback
    requests,               \* history: per feedback request issued, the call that armed its timer
    lastRequest,            \* history: the feedback request issued last
    drag,                   \* history: the 2D drag in progress
    lastEdit,               \* history: the drag edit completed last, and the latest drop of every item
    analysis,               \* Scene3DView prop: the analysis App delivered last
    delivery,               \* history: deliveries of a new `analysis` prop while mounted
    caught,                 \* history: the error caught last by the timer callback
    completion,             \* history: outcome of the feedback request completed last and the slot it overwrote
    \* --- PerspectiveView in playback mode (pose blending)
    isPlaybackMode,         \* prop
    timeProp,               \* prop currentTime: [defined, value]
    actor,                  \* prop analysis.actors[0]: name, position, animation track
    mountNames,             \* names of the actors of the `analysis` the animate loop closed over
    elapsed,                \* clock.getElapsedTime(), in quarters of a second
    activeAnimations,       \* ref: per actor name, its PoseAnimationState or Null
    mesh,                   \* the actor group in the scene and its head: name, rotX, rotY, rotZ, posX, posZ
    renders,                \* history: renders of PerspectiveView after the mount
    lastEffect,             \* history: what the animation trigger effect did last
    framed,                 \* history: a frame was rendered since the last render and clock tick
    \* --- TimelineGraph
    graphProps,             \* props: data, type, duration, currentTime, noiseFactor
    hoverInfo,              \* state: the hover tooltip, or Null
    graphOut,               \* the render of the current props and state
    graphPrev,              \* history: the render before it, with its props
    \* --- playback clock (useVideoPlayback, App and the video element)
    playbackTime,           \* hook state currentTime, in halves of a second
    playbackDuration,       \* hook state duration, in halves of a second
    sceneDuration,          \* currentSceneData.duration, in halves of a second
    videoTime,              \* videoRef.current.currentTime
    mediaDuration,          \* videoRef.current.duration: the length of the loaded media
    metadataPending,        \* the element has not yet raised loadedmetadata for its source
    sceneAnalysis,          \* App state: Null or the layout analysis installed last
    isAnalyzing,            \* App state
    analysisError,          \* App state: Null or the message
    analyses,               \* calls of handleAnalyzeScene waiting for analyzeSceneLayout
    analysisCalls,          \* history: the number of calls of handleAnalyzeScene
    \* --- the call sites of findSegment in one render of App and DataPanel
    currentSceneData,       \* App state: characters (blocking, emotion) and camera movement
    emotionalArcAnalysis,   \* App state: Null or the AI-supplied emotion track per character id
    viewOptions,            \* useSceneViewOptions: showCameraPath, showEmotionData
    renderTime,             \* the currentTime of the render
    segmentCalls            \* the calls of findSegment the render made: site and data

samplerVars == <<track, scene, sTime, seg, sampled, derived, sPc>>
interpVars == <<iArgs, iCalls>>
viewVars == <<sinceCall, localAnalysis, viewMode, draggedItem, dynamicFeedback, isFetchingFeedback,
              feedbackRequestTimer, pendingTimers, inFlight, mountAnalysis,
              calls, lastCall, requests, lastRequest, drag, lastEdit,
              analysis, delivery, caught, completion>>
propVars == <<analysis, delivery>>
poseVars == <<isPlaybackMode, timeProp, actor, mountNames, elapsed, activeAnimations, mesh, renders,
              lastEffect, framed>>
graphVars == <<graphProps, hoverInfo, graphOut, graphPrev>>
clockVars == <<playbackTime, playbackDuration, sceneDuration, videoTime, mediaDuration, metadataPending>>
analysisVars == <<sceneAnalysis, isAnalyzing, analysisError, analyses, analysisCalls>>
playVars == <<clockVars, analysisVars>>
siteVars == <<currentSceneData, emotionalArcAnalysis, viewOptions, renderTime, segmentCalls>>
componentVars == <<poseVars, graphVars, playVars, siteVars>>
vars == <<componentVars, samplerVars, interpVars, viewVars, componentVars>>

\* ---------------------------------------------------------------- bounds
MaxKf == 3          \* longest keyframe track drawn
MaxKfTime == 3      \* keyframe times are drawn from 0..MaxKfTime
MaxKfVal == 1       \* keyframe values are drawn from 0..MaxKfVal
MaxCalls == 2       \* calls of triggerFeedback in one run, deliveries counted with them
MaxDeliveries == 1  \* changes of the `analysis` prop while Scene3DView is mounted
TickMs == 250       \* granularity of the clock, in ms
SignificandBits == 5    \* significand width of the numbers the sampler computes

\* JavaScript numbers are IEEE-754 floating point: every arithmetic result is
\* rounded to the nearest representable value, ties to even.  The model keeps
\* that rounding at a significand of SignificandBits bits (binary64 has 53)
\* and writes a number as the rational [num, den] with a positive denominator.
R(n) == [num |-> n, den |-> 1]
REq(a, b) == a.num * b.den = b.num * a.den
RLeq(a, b) == a.num * b.den <= b.num * a.den
RAdd(a, b) == [num |-> a.num * b.den + b.num * a.den, den |-> a.den * b.den]
RMul(a, b) == [num |-> a.num * b.num, den |-> a.den * b.den]
\* a / b for b > 0
RDiv(a, b) == [num |-> a.num * b.den, den |-> a.den * b.num]

\* 2^k for k in 0..30
PowersOf2 == <<1, 2, 4, 8, 16, 32, 64, 128, 256, 512, 1024, 2048, 4096, 8192,
               16384, 32768, 65536, 131072, 262144, 524288, 1048576, 2097152,
               4194304, 8388608, 16777216, 33554432, 67108864, 134217728,
               268435456, 536870912, 1073741824>>
Pow2(k) == PowersOf2[k + 1]

\* the binary exponent e of a / d > 0: 2^(SignificandBits - 1) <= (a / d) / 2^e
\* < 2^SignificandBits, searched from k upwards or downwards
RECURSIVE ExponentOf(_, _, _)
ExponentOf(a, d, k) ==
    IF k >= 0 /\ a >= Pow2(SignificandBits) * d * Pow2(k) THEN ExponentOf(a, d, k + 1)
    ELSE IF k <= 0 /\ a * Pow2(-k) < Pow2(SignificandBits - 1) * d THEN ExponentOf(a, d, k - 1)
    ELSE k

\* n / d in lowest terms, for d a power of two
RECURSIVE Dyadic(_, _)
Dyadic(n, d) == IF d > 1 /\ n % 2 = 0 THEN Dyadic(n \div 2, d \div 2) ELSE [num |-> n, den |-> d]

\* the representable number nearest to r, ties to the even significand
Fl(r) ==
    IF r.num = 0 THEN R(0)
    ELSE IF r.den = 1 /\ -Pow2(SignificandBits) < r.num /\ r.num < Pow2(SignificandBits) THEN r
    ELSE LET a == IF r.num < 0 THEN -r.num ELSE r.num
             sn(k) == IF k >= 0 THEN a ELSE a * Pow2(-k)
             sd(k) == IF k >= 0 THEN r.den * Pow2(k) ELSE r.den
             e == ExponentOf(a, r.den, 0)
             q == sn(e) \div sd(e)
             rem == sn(e) % sd(e)
             m == IF 2 * rem > sd(e) \/ (2 * rem = sd(e) /\ q % 2 = 1) THEN q + 1 ELSE q
             sm == IF r.num < 0 THEN -m ELSE m
         IN  IF e >= 0 THEN R(sm * Pow2(e)) ELSE Dyadic(sm, Pow2(-e))

Undefined == [undefined |-> TRUE]
TypeError == [error |-> "TypeError"]

\* ------------------------------------------------------- TemporalSampler
\* the blend factor taken from the far end of the segment
interpolate_reversed(val1, val2, time1, time2, currentTime) ==
    IF currentTime <= time1 THEN R(val1)
    ELSE IF currentTime >= time2 THEN R(val2)
    ELSE IF time1 = time2 THEN R(val1)
    ELSE LET t == Fl(RDiv(Fl(R(time2 - currentTime)), Fl(R(time2 - time1))))
         IN  Fl(RAdd(R(val1), Fl(RMul(Fl(R(val2 - val1)), t))))

interpolate(val1, val2, time1, time2, currentTime) ==
    IF currentTime <= time1 THEN R(val1)
    ELSE IF currentTime >= time2 THEN R(val2)
    ELSE IF time1 = time2 THEN R(val1)
    ELSE LET t == Fl(RDiv(Fl(R(currentTime - time1)), Fl(R(time2 - time1))))
         IN  Fl(RAdd(R(val1), Fl(RMul(Fl(R(val2 - val1)), t))))

\* data[data.length - 1]; reading index -1 of an empty array yields undefined
LastOf(data) == IF Len(data) = 0 THEN Undefined ELSE data[Len(data)]

\* the loop with the upper comparison `<=` instead of `<`
RECURSIVE findSegmentFrom_upperInclusive(_, _, _)
findSegmentFrom_upperInclusive(data, currentTime, i) ==
    IF i > Len(data) - 1
    THEN [start |-> LastOf(data), end |-> LastOf(data)]
    ELSE IF currentTime >= data[i].time /\ currentTime <= data[i + 1].time
         THEN [start |-> data[i], end |-> data[i + 1]]
         ELSE findSegmentFrom_upperInclusive(data, currentTime, i + 1)

\* the loop with the lower comparison `>` instead of `>=`
RECURSIVE findSegmentFrom_lowerStrict(_, _, _)
findSegmentFrom_lowerStrict(data, currentTime, i) ==
    IF i > Len(data) - 1
    THEN [start |-> LastOf(data), end |-> LastOf(data)]
    ELSE IF currentTime > data[i].time /\ currentTime < data[i + 1].time
         THEN [start |-> data[i], end |-> data[i + 1]]
         ELSE findSegmentFrom_lowerStrict(data, currentTime, i + 1)

RECURSIVE findSegmentFrom(_, _, _)
findSegmentFrom(data, currentTime, i) ==
    IF i > Len(data) - 1
    THEN [start |-> LastOf(data), end |-> LastOf(data)]
    ELSE IF currentTime >= data[i].time /\ currentTime < data[i + 1].time
         THEN [start |-> data[i], end |-> data[i + 1]]
         ELSE findSegmentFrom(data, currentTime, i + 1)

findSegment(data, currentTime) == findSegmentFrom(data, currentTime, 1)

\* ------------------------------------------------------------ App render
\* characterPositions without the empty-blocking guard
characterPosition_unguarded(char, currentTime) ==
    LET s == findSegment(char.blocking, currentTime)
    IN  IF s.start = Undefined
        THEN TypeError
        ELSE [id |-> char.id,
              x |-> interpolate(s.start.x, s.end.x, s.start.time, s.end.time, currentTime),
              y |-> interpolate(s.start.y, s.end.y, s.start.time, s.end.time, currentTime)]

\* App.tsx 592-601: characterPositions for one character
characterPosition(char, currentTime) ==
    LET blockingData == IF char.hasBlocking THEN char.blocking ELSE <<>>
    IN  IF Len(blockingData) = 0
        THEN [id |-> char.id, x |-> R(50), y |-> R(50)]
        ELSE LET s == findSegment(blockingData, currentTime)
             IN  IF s.start = Undefined
                 THEN TypeError
                 ELSE [id |-> char.id,
                       x |-> interpolate(s.start.x, s.end.x, s.start.time, s.end.time, currentTime),
                       y |-> interpolate(s.start.y, s.end.y, s.start.time, s.end.time, currentTime)]

StaticCameraKeyframe == [time |-> 0, x |-> 50, y |-> 50, complexity |-> 0, label |-> "Static"]

\* App.tsx 605-616: currentCameraPosition
currentCameraPosition(sc, currentTime) ==
    LET cameraMovementData ==
            IF sc.camera = Undefined \/ ~sc.camera.hasMovement
            THEN <<>> ELSE sc.camera.movement
        s == IF Len(cameraMovementData) > 0
             THEN findSegment(cameraMovementData, currentTime)
             ELSE [start |-> StaticCameraKeyframe, end |-> StaticCameraKeyframe]
    IN  IF s.start = Undefined
        THEN TypeError
        ELSE [x |-> interpolate(s.start.x, s.end.x, s.start.time, s.end.time, currentTime),
              y |-> interpolate(s.start.y, s.end.y, s.start.time, s.end.time, currentTime),
              complexity |-> interpolate(s.start.complexity, s.end.complexity,
                                         s.start.time, s.end.time, currentTime)]

\* the part of one App render that derives the scene at currentTime
derive(sc, currentTime) ==
    [characterPositions |->
        [k \in 1..Len(sc.characters) |-> characterPosition(sc.characters[k], currentTime)],
     currentCameraPosition |-> currentCameraPosition(sc, currentTime)]

\* ------------------------------------------------------- sampled inputs
NoValue == [none |-> TRUE]

Keyframes == [time : 0..MaxKfTime, x : 0..MaxKfVal]
BlockingKf(k) == [time |-> k.time, x |-> k.x, y |-> MaxKfVal - k.x]
CameraKf(k) == [time |-> k.time, x |-> k.x, y |-> MaxKfVal - k.x,
                complexity |-> k.x, label |-> "Pan"]

IsSorted(data) == \A i \in 1..(Len(data) - 1) : data[i].time <= data[i + 1].time

\* the track of the worked example: keyframes (0,0),(10,10)
ExampleTrack == <<[time |-> 0, x |-> 0, y |-> 0], [time |-> 10, x |-> 10, y |-> 10]>>
ExampleTimes == {-5, 5, 15}

SortedTracks ==
    { [i \in 1..Len(g) |-> BlockingKf(g[i])] :
        g \in { h \in UNION { [1..m -> Keyframes] : m \in 1..MaxKf } : IsSorted(h) } }

Tracks == SortedTracks \cup {ExampleTrack}
QueryTimes == (-1..(MaxKfTime + 1)) \cup ExampleTimes

CameraTrack(data) ==
    [i \in 1..Len(data) |->
        [time |-> data[i].time, x |-> data[i].x, y |-> data[i].y,
         complexity |-> data[i].x, label |-> "Pan"]]

SceneShapes == {"full", "emptyBlocking", "missingBlocking",
                "emptyMovement", "missingMovement", "missingCamera", "emptyBoth"}

\* a scene whose second character and camera follow `data`, except for the
\* part the shape leaves empty or missing (EMPTY_SCENE_DATA, AI-supplied data)
SceneOf(data, shape) ==
    [characters |->
        << [id |-> "char1",
            hasBlocking |-> shape # "missingBlocking",
            blocking |-> IF shape \in {"emptyBlocking", "missingBlocking", "emptyBoth"}
                         THEN <<>> ELSE data],
           [id |-> "char2", hasBlocking |-> TRUE, blocking |-> data] >>,
     camera |-> IF shape = "missingCamera" THEN Undefined
                ELSE [hasMovement |-> shape # "missingMovement",
                      movement |-> IF shape \in {"emptyMovement", "missingMovement", "emptyBoth"}
                                   THEN <<>> ELSE CameraTrack(data)]]

\* ------------------------------------------- Scene3DView: data and helpers
Null == [null |-> TRUE]

DebounceMs == 500
SCENE_WIDTH == 10

Vec(x, y, z) == [x |-> x, y |-> y, z |-> z]

\* the SceneAnalysis delivered by the analysis collaborator
InitialAnalysis ==
    [actors |-> << [name |-> "Ava", position |-> Vec(20, 40, 0),
                    emotion |-> "calm", interaction |-> "talks to Ben"],
                   [name |-> "Ben", position |-> Vec(60, 40, 0),
                    emotion |-> "tense", interaction |-> Null] >>,
     camera |-> [position |-> Vec(50, 90, 15)],
     lights |-> << [type |-> "key", position |-> Vec(80, 10, 30), intensity |-> 1] >>,
     props |-> << [name |-> "chair", position |-> Vec(30, 70, 0)] >>,
     environmentDescription |-> "a dim office",
     overallMood |-> "uneasy"]

\* a later answer of the analysis collaborator: other actors, no props
OtherAnalysis ==
    [actors |-> << [name |-> "Cy", position |-> Vec(45, 55, 0),
                    emotion |-> "curious", interaction |-> Null] >>,
     camera |-> [position |-> Vec(10, 80, 20)],
     lights |-> << [type |-> "fill", position |-> Vec(15, 25, 30), intensity |-> 2] >>,
     props |-> << >>,
     environmentDescription |-> "a rooftop at dusk",
     overallMood |-> "hopeful"]

Snapshots == {InitialAnalysis, OtherAnalysis}

\* pointer positions of the 2D view, in percent of the container (may lie outside it)
PointerPoints == { [px |-> 10, py |-> 30] }
\* positions of a dragged mesh at dragend, in world units
DropVectors == { Vec(2, 1, -3) }

Max2(a, b) == IF a >= b THEN a ELSE b
Min2(a, b) == IF a <= b THEN a ELSE b

\* PerspectiveView.tsx 40-46, with SCENE_SCALE = SCENE_WIDTH / 100
get2DPositionFrom3D(vec) ==
    [x |-> (vec.x * 100) \div SCENE_WIDTH + 50,
     y |-> (vec.z * 100) \div SCENE_WIDTH + 50,
     z |-> (vec.y * 100) \div SCENE_WIDTH]

\* JSON.parse(JSON.stringify(value)) of a SceneAnalysis: every own property
\* is a finite number, a string, null, an array or an object of these
JsonVec(v) == [x |-> v.x, y |-> v.y, z |-> v.z]
JsonClone(a) ==
    [actors |-> [i \in 1..Len(a.actors) |->
                    [name |-> a.actors[i].name, position |-> JsonVec(a.actors[i].position),
                     emotion |-> a.actors[i].emotion, interaction |-> a.actors[i].interaction]],
     camera |-> [position |-> JsonVec(a.camera.position)],
     lights |-> [i \in 1..Len(a.lights) |->
                    [type |-> a.lights[i].type, position |-> JsonVec(a.lights[i].position),
                     intensity |-> a.lights[i].intensity]],
     props |-> [i \in 1..Len(a.props) |->
                    [name |-> a.props[i].name, position |-> JsonVec(a.props[i].position)]],
     environmentDescription |-> a.environmentDescription,
     overallMood |-> a.overallMood]

SetXY(entity, x, y) == [entity EXCEPT !.position.x = x, !.position.y = y]

\* the entity a DraggedItem / SelectedItem of a kind and index refers to
\* an index past the end of the array reads undefined
EntityOf(a, type, index) ==
    CASE type = "actor" -> IF index \in 1..Len(a.actors) THEN a.actors[index] ELSE Undefined
      [] type = "prop" -> IF index \in 1..Len(a.props) THEN a.props[index] ELSE Undefined
      [] type = "light" -> IF index \in 1..Len(a.lights) THEN a.lights[index] ELSE Undefined
      [] type = "camera" -> a.camera

\* the items the views render as draggable: kind and 1-based index (camera: 0)
DraggableItems(a) ==
    {[type |-> "actor", index |-> i] : i \in 1..Len(a.actors)}
    \cup {[type |-> "prop", index |-> i] : i \in 1..Len(a.props)}
    \cup {[type |-> "light", index |-> i] : i \in 1..Len(a.lights)}
    \cup {[type |-> "camera", index |-> 0]}

SelectedItemOf(a, item) == [type |-> item.type, data |-> EntityOf(a, item.type, item.index)]

\* Scene3DView.tsx 190: 'name' in changedItem.data ? changedItem.data.name : changedItem.type
\* `in` applied to undefined throws a TypeError
changedObjectName(changedItem) ==
    IF changedItem.data = Undefined THEN TypeError
    ELSE IF changedItem.type \in {"actor", "prop"} THEN changedItem.data.name
    ELSE changedItem.type

\* Scene3DView.tsx 259-276: the updater handed to setLocalAnalysis
moveDragged(prev, dragged, x, y) ==
    LET newAnalysis == JsonClone(prev)
    IN  CASE dragged.type = "light" /\ dragged.index \in 1..Len(newAnalysis.lights) ->
                [newAnalysis EXCEPT !.lights[dragged.index] = SetXY(@, x, y)]
          [] dragged.type = "prop" /\ dragged.index \in 1..Len(newAnalysis.props) ->
                [newAnalysis EXCEPT !.props[dragged.index] = SetXY(@, x, y)]
          [] dragged.type = "actor" /\ dragged.index \in 1..Len(newAnalysis.actors) ->
                [newAnalysis EXCEPT !.actors[dragged.index] = SetXY(@, x, y)]
          [] dragged.type = "camera" ->
                [newAnalysis EXCEPT !.camera = SetXY(@, x, y)]
          [] OTHER -> newAnalysis

\* PerspectiveView.tsx 142-149: collection.find(i => i.name === itemData.name), then update
findAndupdate(collection, itemData, newPosition2D) ==
    LET hits == {i \in 1..Len(collection) : collection[i].name = itemData.name}
    IN  IF hits = {} THEN collection
        ELSE LET first == CHOOSE i \in hits : \A j \in hits : i <= j
             IN  [collection EXCEPT ![first] = SetXY(@, newPosition2D.x, newPosition2D.y)]

\* PerspectiveView.tsx 140-151: the updatedAnalysis of the dragend handler
dragendAnalysis(closureAnalysis, movedItem, newPosition2D) ==
    LET updatedAnalysis == JsonClone(closureAnalysis)
    IN  IF movedItem.type = "actor"
        THEN [updatedAnalysis EXCEPT
                !.actors = findAndupdate(updatedAnalysis.actors, movedItem.data, newPosition2D)]
        ELSE updatedAnalysis

\* whether the analysis `a` holds the entity a SelectedItem names
NamedIn(a, item) ==
    CASE item.data = Undefined -> FALSE
      [] item.type = "actor" -> \E i \in 1..Len(a.actors) : a.actors[i].name = item.data.name
      [] item.type = "prop" -> \E i \in 1..Len(a.props) : a.props[i].name = item.data.name
      [] OTHER -> TRUE

FallbackFeedback ==
    [impact |-> "Could not analyze the change.",
     suggestion |-> "There was an error communicating with the AI. Please try again."]

\* answers of the feedback collaborator
Feedbacks == { [impact |-> "more intimate", suggestion |-> "try a shallower depth of field"] }

PoseIdle ==
    /\ isPlaybackMode = FALSE /\ timeProp = [defined |-> FALSE, value |-> 0]
    /\ actor = Null /\ mountNames = {} /\ elapsed = 0 /\ activeAnimations = Null /\ mesh = Null
    /\ renders = 0 /\ lastEffect = Null /\ framed = FALSE

GraphIdle ==
    /\ graphProps = Null /\ hoverInfo = Null /\ graphOut = Null /\ graphPrev = Null

PlayIdle ==
    /\ playbackTime = 0 /\ playbackDuration = 0 /\ sceneDuration = 0
    /\ videoTime = 0 /\ mediaDuration = 0 /\ metadataPending = FALSE
    /\ sceneAnalysis = Null /\ isAnalyzing = FALSE /\ analysisError = Null /\ analyses = {}
    /\ analysisCalls = 0

SitesIdle ==
    /\ currentSceneData = Null /\ emotionalArcAnalysis = Null /\ viewOptions = Null
    /\ renderTime = 0 /\ segmentCalls = {}

ComponentsIdle == PoseIdle /\ GraphIdle /\ PlayIdle /\ SitesIdle

ViewIdle ==
    /\ sinceCall = DebounceMs /\ localAnalysis = Null /\ viewMode = "3d" /\ draggedItem = Null
    /\ dynamicFeedback = Null /\ isFetchingFeedback = FALSE
    /\ feedbackRequestTimer = 0 /\ pendingTimers = {} /\ inFlight = {}
    /\ mountAnalysis = Null /\ calls = <<>> /\ lastCall = Null
    /\ requests = <<>> /\ lastRequest = Null
    /\ drag = Null /\ lastEdit = Null
    /\ analysis = Null /\ delivery = [count |-> 0, before |-> Null] /\ caught = Null
    /\ completion = Null

\* ------------------------------------------------ sampler specification
InterpIdle ==
    /\ iArgs = [val1 |-> 0, val2 |-> 0, time1 |-> 0, time2 |-> 0]
    /\ iCalls = <<>>

InitSampler ==
    /\ track \in Tracks
    /\ \E shape \in SceneShapes : scene = SceneOf(track, shape)
    /\ sTime \in QueryTimes
    /\ seg = NoValue /\ sampled = NoValue /\ derived = NoValue
    /\ sPc = "init"
    /\ InterpIdle
    /\ ViewIdle
    /\ ComponentsIdle

\* a caller's `findSegment(data, currentTime)`
FindSegmentCall ==
    /\ sPc = "init"
    /\ seg' = findSegment(track, sTime)
    /\ sPc' = "found"
    /\ UNCHANGED <<track, scene, sTime, sampled, derived, interpVars, viewVars, componentVars>>

\* the caller's following `interpolate(start.x, end.x, start.time, end.time, currentTime)`
InterpolateCall ==
    /\ sPc = "found"
    /\ sampled' = IF seg.start = Undefined THEN TypeError
                  ELSE interpolate(seg.start.x, seg.end.x, seg.start.time, seg.end.time, sTime)
    /\ sPc' = "sampled"
    /\ UNCHANGED <<track, scene, sTime, seg, derived, interpVars, viewVars, componentVars>>

\* one App render: characterPositions and currentCameraPosition
DeriveScene ==
    /\ sPc = "init"
    /\ derived' = derive(scene, sTime)
    /\ sPc' = "derived"
    /\ UNCHANGED <<track, scene, sTime, seg, sampled, interpVars, viewVars, componentVars>>

\* the clock reports another currentTime; results of the last render are dropped
TimeUpdate ==
    /\ sPc \in {"sampled", "derived"}
    /\ \E t \in QueryTimes : sTime' = t
    /\ seg' = NoValue /\ sampled' = NoValue /\ derived' = NoValue
    /\ sPc' = "init"
    /\ UNCHANGED <<track, scene, interpVars, viewVars, componentVars>>

NextSampler == FindSegmentCall \/ InterpolateCall \/ DeriveScene \/ TimeUpdate

SpecSampler == InitSampler /\ [][NextSampler]_vars

\* ------------------------------------------- interpolate specification
InterpVals == 0..MaxKfVal
InterpTimes == 0..MaxKfTime
\* segments whose blend rounds next to time2, one rising and one falling
RoundingArgs == { [val1 |-> 11, val2 |-> 46, time1 |-> 5, time2 |-> 42],
                  [val1 |-> 48, val2 |-> 5, time1 |-> 11, time2 |-> 48] }
InterpArgs ==
    [val1 : InterpVals, val2 : InterpVals, time1 : InterpTimes, time2 : InterpTimes]
        \cup RoundingArgs
InterpQueries == (-1..(MaxKfTime + 1)) \cup {24, 40, 42, 46, 48}

SamplerIdle ==
    /\ track = <<>> /\ scene = SceneOf(<<>>, "full") /\ sTime = 0
    /\ seg = NoValue /\ sampled = NoValue /\ derived = NoValue /\ sPc = "idle"

InitInterp ==
    /\ iArgs \in InterpArgs
    /\ iCalls = <<>>
    /\ SamplerIdle
    /\ ViewIdle
    /\ ComponentsIdle

\* interpolate(val1, val2, time1, time2, x) at a further query time x
InterpolateAt ==
    /\ \E x \in InterpQueries :
         LET call == [x |-> x,
                      res |-> interpolate(iArgs.val1, iArgs.val2, iArgs.time1, iArgs.time2, x)]
         IN  iCalls' = IF Len(iCalls) = 0 THEN <<call>> ELSE <<iCalls[Len(iCalls)], call>>
    /\ UNCHANGED <<iArgs, samplerVars, viewVars, componentVars>>

NextInterp == InterpolateAt

SpecInterp == InitInterp /\ [][NextInterp]_vars

\* ------------------------------------------------- Scene3DView specification
\* Scene3DView is mounted with the delivered analysis, in its default 3D mode;
\* PerspectiveView mounts with it and its mount effect closes over `analysis`.
Init ==
    /\ sinceCall = DebounceMs
    /\ localAnalysis = InitialAnalysis
    /\ viewMode = "3d"
    /\ draggedItem = Null
    /\ dynamicFeedback = Null
    /\ isFetchingFeedback = FALSE
    /\ feedbackRequestTimer = 0
    /\ pendingTimers = {}
    /\ inFlight = {}
    /\ mountAnalysis = InitialAnalysis
    /\ calls = <<>> /\ lastCall = Null /\ requests = <<>> /\ lastRequest = Null
    /\ drag = Null /\ lastEdit = Null
    /\ analysis = InitialAnalysis /\ delivery = [count |-> 0, before |-> Null] /\ caught = Null
    /\ completion = Null
    /\ SamplerIdle /\ InterpIdle /\ ComponentsIdle

\* one run holds at most MaxCalls calls of triggerFeedback and deliveries together
EventsLeft == Len(calls) + delivery.count < MaxCalls

\* a timer whose delay has elapsed; its task runs before any later event
TimerDue == \E t \in pendingTimers : t.remaining = 0

\* triggerFeedback without the clearTimeout of the pending timer
triggerFeedback_noClear(updatedAnalysis, changedItem) ==
    LET id == Len(calls) + 1
    IN  /\ pendingTimers' = pendingTimers
                            \cup {[id |-> id, remaining |-> DebounceMs,
                                   updatedAnalysis |-> updatedAnalysis,
                                   changedItem |-> changedItem]}
        /\ feedbackRequestTimer' = id
        /\ calls' = Append(calls, [gap |-> sinceCall])
        /\ lastCall' = [id |-> id, updatedAnalysis |-> updatedAnalysis,
                        changedItem |-> changedItem]
        /\ sinceCall' = 0

\* Scene3DView.tsx 182-203: clearTimeout of the timer armed last, then setTimeout
triggerFeedback(updatedAnalysis, changedItem) ==
    LET id == Len(calls) + 1
    IN  /\ pendingTimers' = {t \in pendingTimers : t.id # feedbackRequestTimer}
                            \cup {[id |-> id, remaining |-> DebounceMs,
                                   updatedAnalysis |-> updatedAnalysis,
                                   changedItem |-> changedItem]}
        /\ feedbackRequestTimer' = id
        /\ calls' = Append(calls, [gap |-> sinceCall])
        /\ lastCall' = [id |-> id, updatedAnalysis |-> updatedAnalysis,
                        changedItem |-> changedItem]
        /\ sinceCall' = 0

\* history: per draggable item, the drop position of its latest completed
\* drag edit, or Null
ItemKeys == UNION { DraggableItems(a) : a \in Snapshots }
LatestEdits == IF lastEdit = Null THEN [k \in ItemKeys |-> Null] ELSE lastEdit.latest

\* TickMs of wall-clock time pass; a due timer fires first
Tick ==
    /\ ~TimerDue
    /\ sinceCall < DebounceMs \/ pendingTimers # {}
    /\ sinceCall' = Min2(sinceCall + TickMs, DebounceMs)
    /\ pendingTimers' = {[t EXCEPT !.remaining = Max2(0, @ - TickMs)] : t \in pendingTimers}
    /\ UNCHANGED <<localAnalysis, viewMode, draggedItem, dynamicFeedback, isFetchingFeedback,
                   feedbackRequestTimer, inFlight, mountAnalysis,
                   calls, lastCall, requests, lastRequest, drag, lastEdit, componentVars, samplerVars, interpVars, propVars, caught, completion>>

\* Scene3DView.tsx 226-231: mousedown on an item of the 2D view
handleMouseDown ==
    /\ viewMode = "2d" /\ draggedItem = Null /\ ~TimerDue
    /\ EventsLeft
    /\ \E item \in DraggableItems(localAnalysis) :
         /\ draggedItem' = item
         /\ drag' = [item |-> item, before |-> localAnalysis, drop |-> Null]
    /\ dynamicFeedback' = Null
    /\ UNCHANGED <<sinceCall, localAnalysis, viewMode, isFetchingFeedback, feedbackRequestTimer,
                   pendingTimers, inFlight, mountAnalysis, calls, lastCall, requests, lastRequest, lastEdit,
                   componentVars, samplerVars, interpVars, propVars, caught, completion>>

\* Scene3DView.tsx 253-277: mousemove over the container while dragging
handleMouseMove ==
    /\ viewMode = "2d" /\ draggedItem # Null /\ ~TimerDue
    /\ \E p \in PointerPoints :
         LET x == Max2(0, Min2(100, p.px))
             y == Max2(0, Min2(100, p.py))
         IN  /\ localAnalysis' = moveDragged(localAnalysis, draggedItem, x, y)
             /\ drag' = [drag EXCEPT !.drop = [x |-> x, y |-> y]]
    /\ UNCHANGED <<sinceCall, viewMode, draggedItem, dynamicFeedback, isFetchingFeedback,
                   feedbackRequestTimer, pendingTimers, inFlight, mountAnalysis,
                   calls, lastCall, requests, lastRequest, lastEdit, componentVars, samplerVars, interpVars, propVars, caught, completion>>

\* Scene3DView.tsx 233-251: mouseup on, or mouseleave of, the container
handleMouseUp ==
    /\ draggedItem # Null /\ ~TimerDue
    /\ EventsLeft
    /\ triggerFeedback(localAnalysis, SelectedItemOf(localAnalysis, draggedItem))
    /\ draggedItem' = Null
    /\ drag' = Null
    /\ lastEdit' = IF drag.drop = Null THEN lastEdit
                   ELSE [view |-> "2d", item |-> drag.item, drop |-> drag.drop,
                         before |-> drag.before, stored |-> localAnalysis,
                         fed |-> localAnalysis, call |-> Len(calls) + 1,
                         known |-> NamedIn(localAnalysis,
                                           SelectedItemOf(localAnalysis, draggedItem)),
                         latest |-> [LatestEdits EXCEPT ![drag.item] = drag.drop]]
    /\ UNCHANGED <<localAnalysis, viewMode, dynamicFeedback, isFetchingFeedback,
                   inFlight, mountAnalysis, requests, lastRequest, componentVars, samplerVars, interpVars, propVars, caught, completion>>

\* PerspectiveView.tsx 129-153 and Scene3DView.tsx 205-208: dragend of a mesh
\* of the 3D view, then handleItemMoved
dragend ==
    /\ viewMode = "3d" /\ ~TimerDue
    /\ EventsLeft
    /\ \E item \in DraggableItems(localAnalysis), vec \in DropVectors :
         LET movedItem == SelectedItemOf(localAnalysis, item)
             newPosition2D == get2DPositionFrom3D(vec)
             updatedAnalysis == dragendAnalysis(mountAnalysis, movedItem, newPosition2D)
         IN  /\ localAnalysis' = updatedAnalysis
             /\ triggerFeedback(updatedAnalysis, movedItem)
             /\ lastEdit' = [view |-> "3d", item |-> item,
                             drop |-> [x |-> newPosition2D.x, y |-> newPosition2D.y],
                             before |-> localAnalysis, stored |-> updatedAnalysis,
                             fed |-> updatedAnalysis, call |-> Len(calls) + 1,
                             known |-> NamedIn(mountAnalysis, movedItem),
                             latest |-> [LatestEdits EXCEPT
                                            ![item] = [x |-> newPosition2D.x, y |-> newPosition2D.y]]]
    /\ UNCHANGED <<viewMode, draggedItem, dynamicFeedback, isFetchingFeedback,
                   inFlight, mountAnalysis, requests, lastRequest, drag, componentVars, samplerVars, interpVars, propVars, caught, completion>>

\* Scene3DView.tsx 527-545 and 362: a click on the 2D / 3D button, which
\* bubbles to the container's handleDeselect; entering 3D mounts PerspectiveView
setViewMode ==
    /\ draggedItem = Null /\ ~TimerDue
    /\ \E mode \in {"2d", "3d"} :
         /\ mode # viewMode
         /\ viewMode' = mode
         /\ mountAnalysis' = IF mode = "3d" THEN localAnalysis ELSE Null
    /\ dynamicFeedback' = Null
    /\ UNCHANGED <<sinceCall, localAnalysis, draggedItem, isFetchingFeedback, feedbackRequestTimer,
                   pendingTimers, inFlight, calls, lastCall, requests, lastRequest, drag, lastEdit,
                   componentVars, samplerVars, interpVars, propVars, caught, completion>>

\* a delivery that keeps the store once a drag edit has written to it
analysisChanged_keepsEdited ==
    /\ delivery.count < MaxDeliveries /\ EventsLeft /\ ~TimerDue
    /\ \E snapshot \in Snapshots \ {analysis} :
         /\ analysis' = snapshot
         /\ localAnalysis' = IF lastEdit # Null THEN localAnalysis ELSE snapshot
         /\ drag' = IF drag = Null THEN Null
                    ELSE [drag EXCEPT !.before = snapshot, !.drop = Null]
    /\ delivery' = [count |-> delivery.count + 1, before |-> localAnalysis]
    /\ UNCHANGED <<sinceCall, viewMode, draggedItem, dynamicFeedback, isFetchingFeedback,
                   feedbackRequestTimer, pendingTimers, inFlight, mountAnalysis,
                   calls, lastCall, requests, lastRequest, lastEdit, caught, completion,
                   componentVars, samplerVars, interpVars>>

\* Scene3DView.tsx 171-173: App hands Scene3DView another `analysis` while it
\* is mounted and the effect stores it; PerspectiveView's mount effect does
\* not run again
analysisChanged ==
    /\ delivery.count < MaxDeliveries /\ EventsLeft /\ ~TimerDue
    /\ \E snapshot \in Snapshots \ {analysis} :
         /\ analysis' = snapshot
         /\ localAnalysis' = snapshot
         /\ drag' = IF drag = Null THEN Null
                    ELSE [drag EXCEPT !.before = snapshot, !.drop = Null]
    /\ delivery' = [count |-> delivery.count + 1, before |-> localAnalysis]
    /\ UNCHANGED <<sinceCall, viewMode, draggedItem, dynamicFeedback, isFetchingFeedback,
                   feedbackRequestTimer, pendingTimers, inFlight, mountAnalysis,
                   calls, lastCall, requests, lastRequest, lastEdit, caught, completion,
                   componentVars, samplerVars, interpVars>>

\* Scene3DView.tsx 186-201: the timer callback up to the await; when
\* changedItem.data is undefined, line 190 throws inside the try and the
\* callback runs its catch and finally without issuing a request
timerFires ==
    /\ \E t \in pendingTimers :
         /\ t.remaining = 0
         /\ pendingTimers' = pendingTimers \ {t}
         /\ IF t.changedItem.data = Undefined
            THEN /\ caught' = [error |-> "TypeError", call |-> t.id]
                 /\ dynamicFeedback' = FallbackFeedback
                 /\ isFetchingFeedback' = FALSE
                 /\ UNCHANGED <<requests, lastRequest, inFlight>>
            ELSE /\ requests' = Append(requests, t.id)
                 /\ lastRequest' = [id |-> t.id, analysis |-> t.updatedAnalysis,
                                    changedObjectName |-> changedObjectName(t.changedItem),
                                    sinceCall |-> sinceCall, latest |-> lastCall]
                 /\ inFlight' = inFlight \cup {t.id}
                 /\ isFetchingFeedback' = TRUE
                 /\ dynamicFeedback' = Null
                 /\ UNCHANGED caught
    /\ UNCHANGED <<sinceCall, localAnalysis, viewMode, draggedItem, feedbackRequestTimer,
                   mountAnalysis, calls, lastCall, drag, lastEdit, componentVars, samplerVars, interpVars, propVars,
                   completion>>

\* a generation check: only the request issued last may write the slot
feedbackResolves_latestOnly ==
    /\ \E id \in inFlight, feedback \in Feedbacks :
         /\ inFlight' = inFlight \ {id}
         /\ dynamicFeedback' = IF id = requests[Len(requests)] THEN feedback ELSE dynamicFeedback
         /\ completion' = [id |-> id, outcome |-> "resolved", returned |-> feedback,
                          over |-> dynamicFeedback]
    /\ isFetchingFeedback' = FALSE
    /\ UNCHANGED <<sinceCall, localAnalysis, viewMode, draggedItem, feedbackRequestTimer,
                   pendingTimers, mountAnalysis, calls, lastCall, requests, lastRequest, drag, lastEdit,
                   componentVars, samplerVars, interpVars, propVars, caught>>

\* Scene3DView.tsx 192, 199-201: the request resolves
feedbackResolves ==
    /\ \E id \in inFlight, feedback \in Feedbacks :
         /\ inFlight' = inFlight \ {id}
         /\ dynamicFeedback' = feedback
         /\ completion' = [id |-> id, outcome |-> "resolved", returned |-> feedback,
                          over |-> dynamicFeedback]
    /\ isFetchingFeedback' = FALSE
    /\ UNCHANGED <<sinceCall, localAnalysis, viewMode, draggedItem, feedbackRequestTimer,
                   pendingTimers, mountAnalysis, calls, lastCall, requests, lastRequest, drag, lastEdit,
                   componentVars, samplerVars, interpVars, propVars, caught>>

\* the catch block missing: a rejection leaves the slot as it is
feedbackRejects_noFallback ==
    /\ \E id \in inFlight :
         /\ inFlight' = inFlight \ {id}
         /\ completion' = [id |-> id, outcome |-> "rejected", returned |-> Null,
                          over |-> dynamicFeedback]
    /\ dynamicFeedback' = dynamicFeedback
    /\ isFetchingFeedback' = FALSE
    /\ UNCHANGED <<sinceCall, localAnalysis, viewMode, draggedItem, feedbackRequestTimer,
                   pendingTimers, mountAnalysis, calls, lastCall, requests, lastRequest, drag, lastEdit,
                   componentVars, samplerVars, interpVars, propVars, caught>>

\* Scene3DView.tsx 193-201: the request rejects
feedbackRejects ==
    /\ \E id \in inFlight :
         /\ inFlight' = inFlight \ {id}
         /\ completion' = [id |-> id, outcome |-> "rejected", returned |-> Null,
                          over |-> dynamicFeedback]
    /\ dynamicFeedback' = FallbackFeedback
    /\ isFetchingFeedback' = FALSE
    /\ UNCHANGED <<sinceCall, localAnalysis, viewMode, draggedItem, feedbackRequestTimer,
                   pendingTimers, mountAnalysis, calls, lastCall, requests, lastRequest, drag, lastEdit,
                   componentVars, samplerVars, interpVars, propVars, caught>>

Next ==
    \/ Tick
    \/ handleMouseDown
    \/ handleMouseMove
    \/ handleMouseUp
    \/ dragend
    \/ setViewMode
    \/ analysisChanged
    \/ timerFires
    \/ feedbackResolves
    \/ feedbackRejects

Spec == Init /\ [][Next]_vars

\* ----------------------------------------------------- sampler claims
First(data) == data[1]
Last(data) == data[Len(data)]
Held(k) == [start |-> k, end |-> k]
Brackets(data, i, t) == data[i].time <= t /\ t < data[i + 1].time
\* a.x + (b.x - a.x) * (t - a.time) / (b.time - a.time), in the sampler's numbers
Blend(a, b, t) ==
    Fl(RAdd(R(a.x), Fl(RMul(Fl(R(b.x - a.x)),
                            Fl(RDiv(Fl(R(t - a.time)), Fl(R(b.time - a.time))))))))

\* C2: for a non-empty sorted track and a query time strictly before the
\* first keyframe's time, findSegment returns start = end = first keyframe.
C2_BeforeFirstReturnsFirst ==
    (seg # NoValue /\ Len(track) > 0 /\ sTime < First(track).time)
        => seg = Held(First(track))

\* C3: for a non-empty sorted track and a query time at or after the last
\* keyframe's time, findSegment returns start = end = last keyframe.
C3_AtOrAfterLastReturnsLast ==
    (seg # NoValue /\ Len(track) > 0 /\ sTime >= Last(track).time)
        => seg = Held(Last(track))

C3_Witness ==
    /\ seg # NoValue /\ Len(track) >= 2
    /\ sTime >= Last(track).time
    /\ track[Len(track) - 1] # Last(track)
    /\ seg = Held(Last(track))

\* C4: for a sorted track of at least two keyframes and first.time <= t <
\* last.time, findSegment returns an adjacent pair (data[i], data[i+1]) with
\* start.time <= t < end.time, the one of smallest index.
C4_InteriorReturnsAdjacentPair ==
    (seg # NoValue /\ Len(track) >= 2
        /\ First(track).time <= sTime /\ sTime < Last(track).time)
        => \E i \in 1..(Len(track) - 1) :
              /\ seg = [start |-> track[i], end |-> track[i + 1]]
              /\ seg.start.time <= sTime /\ sTime < seg.end.time
              /\ \A j \in 1..(i - 1) : ~Brackets(track, j, sTime)

C4_Witness ==
    /\ seg # NoValue /\ Len(track) >= 3
    /\ seg = [start |-> track[2], end |-> track[3]]
    /\ sTime = track[2].time /\ sTime < track[3].time
    /\ track[1].time = track[2].time

\* C7: sampling a non-empty sorted track (findSegment, then interpolate)
\* yields the first keyframe's value before the first time, the last
\* keyframe's value at or after the last time, the linear blend of the
\* bracketing keyframes otherwise; (0,0),(10,10) yields 5, 0, 10 at 5, -5, 15.
C7_SampleHoldsAndBlends ==
    (sPc = "sampled" /\ Len(track) > 0) =>
        /\ sampled # TypeError
        /\ IF sTime < First(track).time THEN REq(sampled, R(First(track).x))
           ELSE IF sTime >= Last(track).time THEN REq(sampled, R(Last(track).x))
           ELSE \E i \in 1..(Len(track) - 1) :
                   /\ Brackets(track, i, sTime)
                   /\ REq(sampled, Blend(track[i], track[i + 1], sTime))
        /\ (track = ExampleTrack /\ sTime = 5) => REq(sampled, R(5))
        /\ (track = ExampleTrack /\ sTime = -5) => REq(sampled, R(0))
        /\ (track = ExampleTrack /\ sTime = 15) => REq(sampled, R(10))

\* C8: deriving the scene never fails on empty tracks: a character with an
\* empty or missing blocking sequence is at (50, 50); an empty or missing
\* camera movement gives camera (50, 50) with complexity 0, for every t.
NoBlocking(char) == ~char.hasBlocking \/ Len(char.blocking) = 0
NoMovement(sc) == sc.camera = Undefined \/ ~sc.camera.hasMovement \/ Len(sc.camera.movement) = 0

C8_EmptyTracksDefault ==
    sPc = "derived" =>
        /\ derived.currentCameraPosition # TypeError
        /\ \A k \in 1..Len(scene.characters) :
              /\ derived.characterPositions[k] # TypeError
              /\ NoBlocking(scene.characters[k]) =>
                    /\ REq(derived.characterPositions[k].x, R(50))
                    /\ REq(derived.characterPositions[k].y, R(50))
        /\ NoMovement(scene) =>
              /\ REq(derived.currentCameraPosition.x, R(50))
              /\ REq(derived.currentCameraPosition.y, R(50))
              /\ REq(derived.currentCameraPosition.complexity, R(0))

C8_Witness ==
    /\ sPc = "derived" /\ sTime > 0
    /\ NoBlocking(scene.characters[1]) /\ NoMovement(scene)
    /\ ~NoBlocking(scene.characters[2])
    /\ derived.characterPositions[1].x = R(50)
    /\ derived.currentCameraPosition.complexity = R(0)

\* ------------------------------------------------- interpolate claims
\* C5: for a degenerate segment (t1 = t2) interpolate returns v1 for every
\* query time x, also x > t1, and every pair of values v1, v2.
C5_DegenerateReturnsV1 ==
    iArgs.time1 = iArgs.time2 =>
        \A k \in 1..Len(iCalls) : REq(iCalls[k].res, R(iArgs.val1))

Between(r, a, b) ==
    \/ RLeq(a, r) /\ RLeq(r, b)
    \/ RLeq(b, r) /\ RLeq(r, a)

\* the blend at factor 1: val1 + (val2 - val1), rounded as the sampler rounds it
RoundedEnd(a) == Fl(RAdd(R(a.val1), Fl(R(a.val2 - a.val1))))

Directed(a, r1, r2) ==
    /\ a.val1 <= a.val2 => RLeq(r1, r2)
    /\ a.val1 > a.val2 => RLeq(r2, r1)

\* C6 as stated: for fixed v1, v2 and t1 < t2 interpolate is monotonic in
\* the query time (non-decreasing when v1 <= v2, non-increasing when
\* v1 > v2) and every result lies between v1 and v2 inclusive.
C6_Monotonic ==
    iArgs.time1 < iArgs.time2 =>
        /\ \A k \in 1..Len(iCalls) : Between(iCalls[k].res, R(iArgs.val1), R(iArgs.val2))
        /\ (Len(iCalls) = 2 /\ iCalls[1].x <= iCalls[2].x) =>
              Directed(iArgs, iCalls[1].res, iCalls[2].res)

\* C6 as amended: for fixed v1, v2 and t1 < t2 interpolate is monotonic in
\* the query time over the queries below t2 and constant (v2) from t2 on;
\* a result below t2 lies between v1 and the rounded value of
\* v1 + (v2 - v1), which is v2 up to rounding.
C6_MonotonicUpToRounding ==
    iArgs.time1 < iArgs.time2 =>
        /\ \A k \in 1..Len(iCalls) :
              IF iCalls[k].x >= iArgs.time2
              THEN REq(iCalls[k].res, R(iArgs.val2))
              ELSE Between(iCalls[k].res, R(iArgs.val1), RoundedEnd(iArgs))
        /\ (Len(iCalls) = 2 /\ iCalls[1].x <= iCalls[2].x
               /\ (iCalls[2].x < iArgs.time2 \/ iCalls[1].x >= iArgs.time2)) =>
              Directed(iArgs, iCalls[1].res, iCalls[2].res)

C6_Witness ==
    /\ iArgs.time1 < iArgs.time2 /\ iArgs.val1 > iArgs.val2
    /\ Len(iCalls) = 2
    /\ iArgs.time1 < iCalls[1].x /\ iCalls[1].x < iCalls[2].x /\ iCalls[2].x < iArgs.time2
    /\ ~REq(iCalls[1].res, iCalls[2].res)
    /\ ~Between(iCalls[2].res, R(iArgs.val1), R(iArgs.val2))

\* ------------------------------------------------- Scene3DView claims
RequestsFor(k) == Cardinality({i \in 1..Len(requests) : requests[i] = k})

\* C1: a burst of N >= 1 edits, each less than the debounce window (500 ms)
\* after the one before, issues exactly one feedback request, once the window
\* has elapsed after the last edit, and that request carries the entity and
\* the SceneState snapshot of the Nth edit, not those of an earlier one.
C1_OneRequestPerBurst ==
    /\ \A k \in 1..Len(calls) :
          /\ RequestsFor(k) <= 1
          /\ (k < Len(calls) /\ calls[k + 1].gap < DebounceMs) => RequestsFor(k) = 0
          /\ (k < Len(calls) /\ calls[k + 1].gap >= DebounceMs) => RequestsFor(k) = 1
          /\ (k = Len(calls) /\ sinceCall < DebounceMs) => RequestsFor(k) = 0
          /\ (k = Len(calls) /\ sinceCall >= DebounceMs /\ ~TimerDue) => RequestsFor(k) = 1
    /\ lastRequest # Null =>
          /\ lastRequest.id = lastRequest.latest.id
          /\ lastRequest.analysis = lastRequest.latest.updatedAnalysis
          /\ lastRequest.latest.changedItem.data # Undefined
          /\ lastRequest.changedObjectName = changedObjectName(lastRequest.latest.changedItem)
          /\ lastRequest.sinceCall >= DebounceMs

C1_Witness ==
    /\ Len(calls) = 2 /\ calls[2].gap > 0 /\ calls[2].gap < DebounceMs
    /\ requests = <<2>>
    /\ lastRequest.id = 2
    /\ lastRequest.analysis = lastCall.updatedAnalysis
    /\ lastRequest.analysis # InitialAnalysis

PlanarPosition(a, item) ==
    LET e == EntityOf(a, item.type, item.index) IN [x |-> e.position.x, y |-> e.position.y]

\* C9: after a drag edit, in the 2D or the 3D view, of an actor, prop, light
\* or camera, the SceneState handed to the store and to the feedback
\* coordinator has that entity's planar position equal to the drop position.
C9_EditedEntityAtDropPosition ==
    (lastEdit # Null /\ lastEdit.known) =>
        /\ PlanarPosition(lastEdit.stored, lastEdit.item) = lastEdit.drop
        /\ PlanarPosition(lastEdit.fed, lastEdit.item) = lastEdit.drop

\* the SceneState `a` with the planar position of one entity replaced
WithPlanarPosition(a, item, pos) ==
    CASE item.type = "actor" -> [a EXCEPT !.actors[item.index] = SetXY(@, pos.x, pos.y)]
      [] item.type = "prop" -> [a EXCEPT !.props[item.index] = SetXY(@, pos.x, pos.y)]
      [] item.type = "light" -> [a EXCEPT !.lights[item.index] = SetXY(@, pos.x, pos.y)]
      [] item.type = "camera" -> [a EXCEPT !.camera = SetXY(@, pos.x, pos.y)]

\* C10: a drag edit of one entity changes nothing but that entity's position
\* fields: all other entities, the edited entity's other attributes, the
\* ordering and the scene-level attributes are the same before and after.
C10_EditChangesOnlyThePosition ==
    (lastEdit # Null /\ lastEdit.known) =>
        lastEdit.stored = WithPlanarPosition(lastEdit.before, lastEdit.item,
                                             PlanarPosition(lastEdit.stored, lastEdit.item))

\* C11: an edit that names an entity not present in the SceneState it is
\* applied to (unknown name in the 3D view, out-of-range index in the 2D
\* view) is a no-op: the SceneState after it equals the one before it, and
\* no error is raised.
C11_UnknownEntityIsNoOp ==
    /\ (lastEdit # Null /\ ~lastEdit.known) => lastEdit.stored = lastEdit.before
    /\ caught = Null

C13_CompletionFillsSlot ==
    [][ completion' # completion =>
          /\ completion'.outcome = "resolved" => dynamicFeedback' = completion'.returned
          /\ completion'.outcome = "rejected" =>
                /\ dynamicFeedback' = FallbackFeedback
                /\ dynamicFeedback'.impact = "Could not analyze the change."
          /\ localAnalysis' = localAnalysis
          /\ caught' = caught
      ]_vars

C13_Witness ==
    /\ completion # Null /\ completion.outcome = "rejected"
    /\ dynamicFeedback = FallbackFeedback
    /\ lastEdit # Null /\ localAnalysis = lastEdit.stored /\ localAnalysis # InitialAnalysis

\* C20: when a new analysis snapshot is delivered, the stored scene becomes
\* equal to the snapshot in every field; no position written by an earlier
\* drag edit on the previous scene survives the replacement.
C20_DeliveryReplacesWholesale ==
    [][ delivery'.count > delivery.count =>
          /\ DOMAIN localAnalysis' = DOMAIN analysis'
          /\ \A f \in DOMAIN analysis' : localAnalysis'[f] = analysis'[f]
          /\ (lastEdit # Null /\ lastEdit.stored # analysis') => localAnalysis' # lastEdit.stored
      ]_vars

\* a drag edit moved an entity, then a delivery replaced the edited scene
C20_Witness ==
    /\ delivery.count > 0
    /\ lastEdit # Null /\ lastEdit.stored # lastEdit.before
    /\ delivery.before = lastEdit.stored
    /\ delivery.before # analysis
    /\ localAnalysis = analysis

\* the editing specification with the scheduling of the browser: time
\* passes, a timer whose delay has elapsed runs its callback, and the
\* feedback collaborator answers or fails every request
SpecFair ==
    /\ Init /\ [][Next]_vars
    /\ WF_vars(Tick)
    /\ WF_vars(timerFires)
    /\ WF_vars(feedbackResolves \/ feedbackRejects)

TimerPending(id) == \E t \in pendingTimers : t.id = id
Issued(id) == \E i \in 1..Len(requests) : requests[i] = id
ThrewFor(id) == caught # Null /\ caught.call = id

\* C22: every edit burst eventually resolves: every armed debounce timer is
\* eventually either cancelled by a later edit or fires and issues a
\* request, and after the last request completes the in-flight flag is
\* false and the feedback slot is non-empty.
C22_EditBurstResolves ==
    /\ \A id \in 1..MaxCalls :
         TimerPending(id) ~> (~TimerPending(id) /\ (Issued(id) \/ ~ThrewFor(id)))
    /\ [][ (inFlight # {} /\ inFlight' = {}) =>
             (~isFetchingFeedback' /\ dynamicFeedback' # Null) ]_vars
    /\ (inFlight # {}) ~> (inFlight = {})

\* the gap that followed call i of triggerFeedback, capped at the debounce window
GapAfter(i) == IF i < Len(calls) THEN calls[i + 1].gap ELSE sinceCall

\* the edits followed by a gap of at least the debounce window
QuietPeriods == { i \in 1..Len(calls) : GapAfter(i) >= DebounceMs }

\* C23: in every reachable state at most one debounce timer is pending, and
\* the number of feedback requests issued never exceeds the number of quiet
\* periods (gaps of at least the debounce window following an edit).
C23_OneTimerAndOneRequestPerQuietPeriod ==
    /\ Cardinality(pendingTimers) <= 1
    /\ Len(requests) <= Cardinality(QuietPeriods)

\* two edits within the debounce window, then a quiet period and one request
C23_Witness ==
    /\ Len(calls) = 2 /\ calls[2].gap < DebounceMs
    /\ pendingTimers = {}
    /\ requests = <<2>>
    /\ Cardinality(QuietPeriods) = 1

\* what a completed request shows: its answer, or the fallback message
ResultOf(c) == IF c.outcome = "resolved" THEN c.returned ELSE FallbackFeedback

\* a request issued after request id
IssuedAfter(id) == \E i \in 1..Len(requests) : requests[i] > id

\* C24: when two feedback requests overlap, the slot is written in arrival
\* order with no generation check: a request that completes after a
\* later-issued one still writes its result, so once both have completed the
\* slot holds the result of whichever completed last.
C24_StaleCompletionOverwrites ==
    [][ (completion' # completion /\ IssuedAfter(completion'.id)) =>
            dynamicFeedback' = ResultOf(completion') ]_vars

\* request 2 completed first and filled the slot, then request 1 completed
\* and replaced what the slot held
C24_Witness ==
    /\ requests = <<1, 2>> /\ inFlight = {}
    /\ completion # Null /\ completion.id = 1
    /\ completion.over # Null /\ completion.over # dynamicFeedback
    /\ dynamicFeedback = ResultOf(completion)

\* C25: edits accumulate: after any sequence of drag edits on one
\* authoritative SceneState, with no new analysis in between, every
\* entity's position equals the position of its most recent edit, or its
\* original position if it was never edited; a later edit to one entity
\* never reverts an earlier edit to another.
C25_EditsAccumulate ==
    (delivery.count = 0 /\ drag = Null) =>
        \A k \in DraggableItems(analysis) :
            PlanarPosition(localAnalysis, k) =
                IF LatestEdits[k] = Null THEN PlanarPosition(analysis, k) ELSE LatestEdits[k]

\* C26: the in-flight flag is accurate in every reachable state:
\* isFetchingFeedback is true if and only if at least one feedback request
\* has been issued and has not yet completed, including when two requests
\* overlap.
C26_InFlightFlagAccurate ==
    isFetchingFeedback <=> (inFlight # {})

\* the SceneState an edit starts from: the store at the press of a 2D drag,
\* the store as it is for a drag of the 3D view
StateBeforeEdit == IF drag # Null THEN drag.before ELSE localAnalysis

\* C30: a debounce timer is armed only by an edit that changed the
\* SceneState: a press-and-release on an entity without any movement in the
\* 2D view, a pointer leaving the view, or a 3D drag-end whose resulting
\* SceneState equals the prior one arms no timer and issues no feedback
\* request.
C30_TimerArmedOnlyByChange ==
    [][ Len(calls') > Len(calls) => lastCall'.updatedAnalysis # StateBeforeEdit ]_vars

\* ------------------------------------------- pose blending (PerspectiveView)
MaxElapsed == 6     \* frames of a quarter second the clock runs for
MaxRenders == 2     \* renders of PerspectiveView after the mount

RNeg(a) == [num |-> -a.num, den |-> a.den]
RAbs(a) == IF a.num < 0 THEN RNeg(a) ELSE a
RLt(a, b) == a.num * b.den < b.num * a.den
RECURSIVE Gcd(_, _)
Gcd(m, n) == IF n = 0 THEN m ELSE Gcd(n, m % n)
\* r in lowest terms
Reduce(r) ==
    LET g == Gcd(IF r.num < 0 THEN -r.num ELSE r.num, r.den)
    IN  [num |-> r.num \div g, den |-> r.den \div g]
\* the arithmetic of JavaScript numbers: each result is rounded
FAdd(a, b) == Fl(Reduce(RAdd(a, b)))
FSub(a, b) == Fl(Reduce(RAdd(a, RNeg(b))))
FMul(a, b) == Fl(Reduce(RMul(a, b)))
FDiv(a, b) == Fl(Reduce(RDiv(a, b)))

\* PerspectiveView.tsx 71
lerp(a, b, t) == FAdd(a, FMul(FSub(b, a), t))

\* PerspectiveView.tsx 72
easeInOutCubic(t) ==
    IF RLt(t, [num |-> 1, den |-> 2])
    THEN FMul(FMul(FMul(R(4), t), t), t)
    ELSE LET x == FAdd(FMul(R(-2), t), R(2))
         IN  FSub(R(1), FDiv(Fl(Reduce(RMul(RMul(x, x), x))), R(2)))

\* PerspectiveView.tsx 23
SCENE_SCALE == Fl([num |-> SCENE_WIDTH, den |-> 100])

\* PerspectiveView.tsx 32-38
get3DPosition(pos) ==
    [x |-> FMul(FSub(Fl(R(pos.x)), R(50)), SCENE_SCALE),
     y |-> FMul(Fl(R(pos.z)), SCENE_SCALE),
     z |-> FMul(FSub(Fl(R(pos.y)), R(50)), SCENE_SCALE)]

\* clock.getElapsedTime() in seconds
Seconds(quarters) == Dyadic(quarters, 4)

\* AnimationKeyframe tracks of the actor, sorted by time
AnimationTracks ==
    { <<>>,
      <<[time |-> 0, animationLabel |-> "idle"],
        [time |-> 1, animationLabel |-> "subtle_head_nod"],
        [time |-> 2, animationLabel |-> "look_down"]>>,
      <<[time |-> 1, animationLabel |-> "shake_head_no"],
        [time |-> 2, animationLabel |-> "subtle_head_nod"]>> }

ActorPositions == { Vec(20, 80, 0), Vec(52, 48, 0) }
TimeProps == {[defined |-> FALSE, value |-> 0]} \cup {[defined |-> TRUE, value |-> t] : t \in 0..2}

ActorNames == {"Ava", "Ben"}

\* PerspectiveView.tsx 291-307: the group and head built for the actor
builtMesh(act) ==
    [name |-> act.name, rotX |-> R(0), rotY |-> R(0), rotZ |-> R(0),
     posX |-> get3DPosition(act.position).x, posZ |-> get3DPosition(act.position).z]

\* a new state that starts every channel from rest instead of the mesh
newAnimState_fromRest(label, now, msh, act) ==
    LET base == [label |-> label, startTime |-> now, duration |-> Fl([num |-> 4, den |-> 5]),
                 startRotX |-> R(0), startRotY |-> R(0), startRotZ |-> R(0),
                 targetRotX |-> R(0), targetRotY |-> R(0), targetRotZ |-> R(0),
                 startPosX |-> msh.posX, targetPosX |-> get3DPosition(act.position).x,
                 startPosZ |-> msh.posZ, targetPosZ |-> get3DPosition(act.position).z]
    IN  CASE label = "subtle_head_nod" -> [base EXCEPT !.targetRotX = Fl([num |-> 1, den |-> 5])]
          [] label = "shake_head_no" -> [base EXCEPT !.targetRotY = Fl([num |-> 1, den |-> 2])]
          [] label = "look_down" -> [base EXCEPT !.targetRotX = Fl([num |-> 1, den |-> 2])]
          [] OTHER -> base

\* PerspectiveView.tsx 243-264
newAnimState(label, now, msh, act) ==
    LET base == [label |-> label, startTime |-> now, duration |-> Fl([num |-> 4, den |-> 5]),
                 startRotX |-> msh.rotX, startRotY |-> msh.rotY, startRotZ |-> msh.rotZ,
                 targetRotX |-> R(0), targetRotY |-> R(0), targetRotZ |-> R(0),
                 startPosX |-> msh.posX, targetPosX |-> get3DPosition(act.position).x,
                 startPosZ |-> msh.posZ, targetPosZ |-> get3DPosition(act.position).z]
    IN  CASE label = "subtle_head_nod" -> [base EXCEPT !.targetRotX = Fl([num |-> 1, den |-> 5])]
          [] label = "shake_head_no" -> [base EXCEPT !.targetRotY = Fl([num |-> 1, den |-> 2])]
          [] label = "look_down" -> [base EXCEPT !.targetRotX = Fl([num |-> 1, den |-> 2])]
          [] OTHER -> base

\* the refresh also restarts the blend
refreshTargets_restarts(anim, now, act) ==
    [anim EXCEPT !.targetPosX = get3DPosition(act.position).x,
                 !.targetPosZ = get3DPosition(act.position).z,
                 !.startTime = now]

\* PerspectiveView.tsx 265-269
refreshTargets(anim, now, act) ==
    [anim EXCEPT !.targetPosX = get3DPosition(act.position).x,
                 !.targetPosZ = get3DPosition(act.position).z]

\* PerspectiveView.tsx 230-236: the effect gets as far as the keyframe
\* lookup: playback mode, a currentTime, a non-empty track and a mesh of the
\* actor's name in the scene
effectReaches(playback, t, act, msh) ==
    /\ playback /\ t.defined
    /\ act.hasAnimation /\ Len(act.animation) # 0
    /\ msh.name = act.name

\* PerspectiveView.tsx 238
activeLabel(act, t) == findSegment(act.animation, t.value).start.animationLabel

\* PerspectiveView.tsx 228-271: the animation trigger effect, for the props
\* t and act of the render it follows
triggerEffect(t, act) ==
    IF ~effectReaches(isPlaybackMode, t, act, mesh)
    THEN /\ activeAnimations' = activeAnimations
         /\ lastEffect' = Null
    ELSE LET label == activeLabel(act, t)
             currentAnimState == activeAnimations[act.name]
         IN  IF currentAnimState = Null \/ currentAnimState.label # label
             THEN /\ activeAnimations' = [activeAnimations EXCEPT ![act.name] =
                                             newAnimState(label, Seconds(elapsed), mesh, act)]
                  /\ lastEffect' = [created |-> TRUE]
             ELSE /\ activeAnimations' = [activeAnimations EXCEPT ![act.name] =
                                             refreshTargets(currentAnimState, Seconds(elapsed), act)]
                  /\ lastEffect' = [created |-> FALSE]

\* the quotient left without the upper clamp
progressOf_unclamped(anim, now) == FDiv(FSub(now, anim.startTime), anim.duration)

\* PerspectiveView.tsx 193
progressOf(anim, now) ==
    LET p == FDiv(FSub(now, anim.startTime), anim.duration)
    IN  IF RLt(R(1), p) THEN R(1) ELSE p

\* PerspectiveView.tsx 193-203: the channels one frame writes
rendered(anim, msh, now) ==
    LET easedProgress == easeInOutCubic(progressOf(anim, now))
    IN  [name |-> msh.name,
         rotX |-> lerp(anim.startRotX, anim.targetRotX, easedProgress),
         rotY |-> lerp(anim.startRotY, anim.targetRotY, easedProgress),
         rotZ |-> lerp(anim.startRotZ, anim.targetRotZ, easedProgress),
         posX |-> IF isPlaybackMode
                  THEN lerp(anim.startPosX, anim.targetPosX, easedProgress) ELSE msh.posX,
         posZ |-> IF isPlaybackMode
                  THEN lerp(anim.startPosZ, anim.targetPosZ, easedProgress) ELSE msh.posZ]

\* PerspectiveView.tsx 187-192: the loop reaches the actor when the analysis
\* the mount effect closed over names it
animatedActor(names, act) == act.name \in names

\* a PerspectiveView mounted with an actor: the trigger effect found no mesh
\* (line 236), then the build effect made one
InitPose ==
    /\ isPlaybackMode \in BOOLEAN
    /\ timeProp \in TimeProps
    /\ \E pos \in ActorPositions, anim \in AnimationTracks, has \in BOOLEAN :
         /\ has \/ anim = <<>>
         /\ actor = [name |-> "Ava", position |-> pos, hasAnimation |-> has, animation |-> anim]
    /\ mountNames = {"Ava"}
    /\ elapsed = 0
    /\ activeAnimations = [n \in ActorNames |-> Null]
    /\ mesh = builtMesh(actor)
    /\ renders = 0 /\ lastEffect = Null /\ framed = FALSE
    /\ SamplerIdle /\ InterpIdle /\ ViewIdle /\ GraphIdle /\ PlayIdle /\ SitesIdle

\* time passes on the clock
clockRuns ==
    /\ elapsed < MaxElapsed
    /\ elapsed' = elapsed + 1
    /\ framed' = FALSE
    /\ UNCHANGED <<isPlaybackMode, timeProp, actor, mountNames, activeAnimations, mesh, renders,
                   lastEffect, samplerVars, interpVars, viewVars, graphVars, playVars, siteVars>>

\* PerspectiveView.tsx 180-209: one animation frame
animate ==
    /\ mesh' = IF animatedActor(mountNames, actor) /\ activeAnimations[actor.name] # Null
               THEN rendered(activeAnimations[actor.name], mesh, Seconds(elapsed))
               ELSE mesh
    /\ framed' = TRUE
    /\ UNCHANGED <<isPlaybackMode, timeProp, actor, mountNames, elapsed, activeAnimations, renders,
                   lastEffect, samplerVars, interpVars, viewVars, graphVars, playVars, siteVars>>

\* a render with another currentTime: the trigger effect runs
currentTimeChanged ==
    /\ renders < MaxRenders
    /\ renders' = renders + 1
    /\ \E t \in TimeProps \ {timeProp} :
         /\ timeProp' = t
         /\ triggerEffect(t, actor)
    /\ framed' = FALSE
    /\ UNCHANGED <<isPlaybackMode, actor, mountNames, elapsed, mesh,
                   samplerVars, interpVars, viewVars, graphVars, playVars, siteVars>>

\* a render with another analysis, in which the actor has moved or another
\* actor has taken its place: the trigger effect runs, then the build effect
\* (273-342) replaces the meshes; the mount effect does not run again
analysisPropChanged ==
    /\ renders < MaxRenders
    /\ renders' = renders + 1
    /\ \E pos \in ActorPositions, name \in ActorNames :
         /\ <<pos, name>> # <<actor.position, actor.name>>
         /\ actor' = [actor EXCEPT !.position = pos, !.name = name]
         /\ triggerEffect(timeProp, actor')
         /\ mesh' = builtMesh(actor')
    /\ framed' = FALSE
    /\ UNCHANGED <<isPlaybackMode, timeProp, mountNames, elapsed,
                   samplerVars, interpVars, viewVars, graphVars, playVars, siteVars>>

NextPose == clockRuns \/ animate \/ currentTimeChanged \/ analysisPropChanged

SpecPose == InitPose /\ [][NextPose]_vars

\* an animation frame has been rendered since the last render and the last
\* tick of the clock, for a blend of the actor that is complete: the clock
\* has reached startTime + duration
FrameAfterBlend ==
    /\ framed
    /\ activeAnimations[actor.name] # Null
    /\ RLeq(RAdd(activeAnimations[actor.name].startTime, activeAnimations[actor.name].duration),
            Seconds(elapsed))

\* r is the target up to the rounding of the two operations of lerp at t = 1
NearTarget(r, start, target) ==
    RLeq(Reduce(RMul(RAbs(Reduce(RAdd(r, RNeg(target)))), R(Pow2(SignificandBits)))),
         Reduce(RAdd(RMul(R(2), RAbs(Reduce(RAdd(target, RNeg(start))))), RAbs(target))))

\* C14: after a label change at time T with duration D, at every animation
\* frame at a time >= T + D and before the next label change the progress
\* is exactly 1 and every blended channel's rendered value is its target
\* (here: up to the rounding of lerp's subtraction and addition).
C14_HoldsTargetAfterBlend ==
    FrameAfterBlend =>
       LET a == activeAnimations[actor.name]
       IN  /\ progressOf(a, Seconds(elapsed)) = R(1)
           /\ NearTarget(mesh.rotX, a.startRotX, a.targetRotX)
           /\ NearTarget(mesh.rotY, a.startRotY, a.targetRotY)
           /\ NearTarget(mesh.rotZ, a.startRotZ, a.targetRotZ)
           /\ NearTarget(mesh.posX, a.startPosX, a.targetPosX)
           /\ NearTarget(mesh.posZ, a.startPosZ, a.targetPosZ)

\* the step is a render whose trigger effect reaches the keyframe lookup
EffectRan ==
    /\ renders' = renders + 1
    /\ effectReaches(isPlaybackMode, timeProp', actor', mesh)

\* C15: on a tick where the active label equals the label of the existing
\* PoseAnimationState, only targetPosX and targetPosZ change, to the actor's
\* current position; label, startTime, duration, start values and rotation
\* targets stay, so the progress of the blend is not restarted.
C15_SameLabelRefreshesTargetsOnly ==
    [][ (/\ EffectRan
         /\ activeAnimations[actor'.name] # Null
         /\ activeAnimations[actor'.name].label = activeLabel(actor', timeProp')) =>
          LET old == activeAnimations[actor'.name]
          IN  /\ activeAnimations' =
                    [activeAnimations EXCEPT ![actor'.name] =
                        [old EXCEPT !.targetPosX = get3DPosition(actor'.position).x,
                                    !.targetPosZ = get3DPosition(actor'.position).z]]
              /\ progressOf(activeAnimations'[actor'.name], Seconds(elapsed))
                    = progressOf(old, Seconds(elapsed))
      ]_vars

\* a blend under way whose position target moved after it began
C15_Witness ==
    /\ lastEffect # Null /\ ~lastEffect.created
    /\ activeAnimations[actor.name] # Null
    /\ RLt(activeAnimations[actor.name].startTime, Seconds(elapsed))
    /\ activeAnimations[actor.name].targetPosX = get3DPosition(actor.position).x
    /\ activeAnimations[actor.name].targetPosX # activeAnimations[actor.name].startPosX
    /\ mesh.posX # activeAnimations[actor.name].startPosX

\* label -> rotation targets (x, y, z)
LabelTable(label) ==
    CASE label = "subtle_head_nod" -> <<Fl([num |-> 1, den |-> 5]), R(0), R(0)>>
      [] label = "shake_head_no" -> <<R(0), Fl([num |-> 1, den |-> 2]), R(0)>>
      [] label = "look_down" -> <<Fl([num |-> 1, den |-> 2]), R(0), R(0)>>
      [] OTHER -> <<R(0), R(0), R(0)>>

\* C16: the trigger effect creates a new PoseAnimationState exactly when the
\* actor has none or the active keyframe's label differs from the state's;
\* the new state has startTime = the clock, duration 0.8, start values = the
\* values the meshes hold, and rotation targets from the label table.
C16_NewStateOnLabelChange ==
    [][ EffectRan =>
          LET label == activeLabel(actor', timeProp')
              n == activeAnimations'[actor'.name]
              old == activeAnimations[actor'.name]
          IN  /\ lastEffect'.created <=> (old = Null \/ old.label # label)
              /\ \A other \in ActorNames \ {actor'.name} :
                    activeAnimations'[other] = activeAnimations[other]
              /\ lastEffect'.created =>
                    /\ n.label = label
                    /\ n.startTime = Seconds(elapsed)
                    /\ n.duration = Fl([num |-> 4, den |-> 5])
                    /\ <<n.startRotX, n.startRotY, n.startRotZ>> = <<mesh.rotX, mesh.rotY, mesh.rotZ>>
                    /\ <<n.startPosX, n.startPosZ>> = <<mesh.posX, mesh.posZ>>
                    /\ <<n.targetRotX, n.targetRotY, n.targetRotZ>> = LabelTable(label)
      ]_vars

\* a state created in the middle of a blend, from a head that was turning
C16_Witness ==
    /\ lastEffect # Null /\ lastEffect.created
    /\ activeAnimations[actor.name] # Null
    /\ activeAnimations[actor.name].label = "look_down"
    /\ activeAnimations[actor.name].startRotX # R(0)
    /\ activeAnimations[actor.name].startRotX # Fl([num |-> 1, den |-> 5])
    /\ activeAnimations[actor.name].startTime = Seconds(elapsed)

\* PerspectiveView.tsx 193: the quotient before the upper clamp
rawProgress(anim, now) == FDiv(FSub(now, anim.startTime), anim.duration)

\* the frame just drawn blended the actor's state
FrameBlended ==
    framed /\ animatedActor(mountNames, actor) /\ activeAnimations[actor.name] # Null

\* C28: in every animation frame the blend progress lies in [0, 1] although
\* the code applies only an upper clamp: startTime is never later than the
\* clock value a subsequent frame reads, so (now - startTime) / duration is
\* never negative, and each rendered channel value lies between its start
\* value and its target value inclusive.
C28_ProgressAndChannelsInRange ==
    FrameBlended =>
        LET anim == activeAnimations[actor.name]
            now == Seconds(elapsed)
        IN  /\ RLeq(anim.startTime, now)
            /\ RLeq(R(0), rawProgress(anim, now))
            /\ RLeq(R(0), progressOf(anim, now)) /\ RLeq(progressOf(anim, now), R(1))
            /\ Between(mesh.rotX, anim.startRotX, anim.targetRotX)
            /\ Between(mesh.rotY, anim.startRotY, anim.targetRotY)
            /\ Between(mesh.rotZ, anim.startRotZ, anim.targetRotZ)
            /\ Between(mesh.posX, anim.startPosX, anim.targetPosX)
            /\ Between(mesh.posZ, anim.startPosZ, anim.targetPosZ)

\* a frame in the middle of a blend whose head turns and whose actor moves
C28_Witness ==
    /\ FrameBlended
    /\ LET anim == activeAnimations[actor.name]
       IN  /\ RLt(R(0), progressOf(anim, Seconds(elapsed)))
           /\ RLt(progressOf(anim, Seconds(elapsed)), R(1))
           /\ anim.startRotX # anim.targetRotX
           /\ anim.startPosX # anim.targetPosX
           /\ mesh.rotX # anim.startRotX /\ mesh.rotX # anim.targetRotX
           /\ mesh.posX # anim.startPosX /\ mesh.posX # anim.targetPosX

\* the value a blend from a to b holds at full progress: b up to rounding
blendEnd(a, b) == lerp(a, b, R(1))

\* C28 (amended): in every animation frame startTime is not later than the
\* clock, the blend progress and the eased progress lie in [0, 1], and each
\* rendered channel lies between its start value and the floating-point
\* value of start + (target - start), which is the target up to rounding.
C28_ProgressAndChannelsUpToRounding ==
    FrameBlended =>
        LET anim == activeAnimations[actor.name]
            now == Seconds(elapsed)
            eased == easeInOutCubic(progressOf(anim, now))
        IN  /\ RLeq(anim.startTime, now)
            /\ RLeq(R(0), rawProgress(anim, now))
            /\ RLeq(R(0), progressOf(anim, now)) /\ RLeq(progressOf(anim, now), R(1))
            /\ RLeq(R(0), eased) /\ RLeq(eased, R(1))
            /\ Between(mesh.rotX, anim.startRotX, blendEnd(anim.startRotX, anim.targetRotX))
            /\ Between(mesh.rotY, anim.startRotY, blendEnd(anim.startRotY, anim.targetRotY))
            /\ Between(mesh.rotZ, anim.startRotZ, blendEnd(anim.startRotZ, anim.targetRotZ))
            /\ Between(mesh.posX, anim.startPosX, blendEnd(anim.startPosX, anim.targetPosX))
            /\ Between(mesh.posZ, anim.startPosZ, blendEnd(anim.startPosZ, anim.targetPosZ))

\* ------------------------------------------------------------ TimelineGraph
GraphSteps == 4     \* `steps` of renderGraph, 200 in the source

\* TimelineDataPoint tracks, sorted by time; intensity 2 is out of range
GraphTracks ==
    { <<>>,
      <<[time |-> 0, intensity |-> 1, label |-> "tense"]>>,
      <<[time |-> GraphSteps, intensity |-> 0, label |-> "calm"]>>,
      <<[time |-> 0, intensity |-> 0, label |-> "calm"],
        [time |-> GraphSteps, intensity |-> 1, label |-> "tense"]>>,
      <<[time |-> 0, intensity |-> 2, label |-> "peak"],
        [time |-> GraphSteps, intensity |-> 0, label |-> "calm"]>> }
GraphDurations == {GraphSteps, 2 * GraphSteps}
GraphTimes == {0, 1, GraphSteps}
GraphTypes == {"emotion", "complexity"}
\* noiseFactor ?? 0.3 with the prop absent, and the 0.4 App passes
NoiseFactors == {[num |-> 3, den |-> 10], [num |-> 2, den |-> 5]}

\* part_008 29-36 applied to the hex of each stop of part_008 44-50
viridisStops ==
    <<[pos |-> [num |-> 0, den |-> 1], rgb |-> [r |-> 68, g |-> 1, b |-> 84]],
      [pos |-> [num |-> 1, den |-> 4], rgb |-> [r |-> 59, g |-> 82, b |-> 139]],
      [pos |-> [num |-> 1, den |-> 2], rgb |-> [r |-> 33, g |-> 145, b |-> 140]],
      [pos |-> [num |-> 3, den |-> 4], rgb |-> [r |-> 94, g |-> 201, b |-> 98]],
      [pos |-> [num |-> 1, den |-> 1], rgb |-> [r |-> 253, g |-> 231, b |-> 37]]>>

\* part_008 39-41: the six hexadecimal digits of (r << 16) + (g << 8) + b
rgbToHex(r, g, b) ==
    LET n == r * 65536 + g * 256 + b
    IN  <<(n \div 1048576) % 16, (n \div 65536) % 16, (n \div 4096) % 16,
          (n \div 256) % 16, (n \div 16) % 16, n % 16>>

\* Math.round
Round(x) == (2 * x.num + x.den) \div (2 * x.den)

\* part_008 26.  The operands are integers below 256 and a t of few bits, on
\* which binary64 arithmetic is exact
colorLerp(a, b, t) == Reduce(RAdd(R(a), RMul(R(b - a), t)))

\* part_008 67-83, from stop i on
RECURSIVE emotionColorFrom(_, _)
emotionColorFrom(clampedIntensity, i) ==
    IF i > Len(viridisStops) - 1
    THEN LET lastStop == viridisStops[Len(viridisStops)]
         IN  rgbToHex(lastStop.rgb.r, lastStop.rgb.g, lastStop.rgb.b)
    ELSE LET start == viridisStops[i]
             end == viridisStops[i + 1]
         IN  IF RLeq(start.pos, clampedIntensity) /\ RLeq(clampedIntensity, end.pos)
             THEN LET t == Reduce(RDiv(Reduce(RAdd(clampedIntensity, RNeg(start.pos))),
                                       Reduce(RAdd(end.pos, RNeg(start.pos)))))
                  IN  rgbToHex(Round(colorLerp(start.rgb.r, end.rgb.r, t)),
                               Round(colorLerp(start.rgb.g, end.rgb.g, t)),
                               Round(colorLerp(start.rgb.b, end.rgb.b, t)))
             ELSE emotionColorFrom(clampedIntensity, i + 1)

\* part_008 58-84
getEmotionColor(intensity) ==
    LET clampedIntensity == IF RLt(intensity, R(0)) THEN R(0)
                            ELSE IF RLt(R(1), intensity) THEN R(1) ELSE intensity
    IN  IF RLeq(clampedIntensity, R(0))
        THEN rgbToHex(viridisStops[1].rgb.r, viridisStops[1].rgb.g, viridisStops[1].rgb.b)
        ELSE IF RLeq(R(1), clampedIntensity)
        THEN rgbToHex(viridisStops[Len(viridisStops)].rgb.r, viridisStops[Len(viridisStops)].rgb.g,
                      viridisStops[Len(viridisStops)].rgb.b)
        ELSE emotionColorFrom(clampedIntensity, 1)

\* TimelineGraph.tsx 79-81, 110-112: the intensity at step i
intensityAt(data, duration, i) ==
    LET time == (i * duration) \div GraphSteps
        sg == findSegment(data, time)
    IN  interpolate(sg.start.intensity, sg.end.intensity, sg.start.time, sg.end.time, time)

\* the ramp sampled from the playhead on
emotionStops_fromCurrentTime(props) ==
    [i \in 1..(GraphSteps + 1) |->
        [offset |-> Reduce([num |-> (i - 1) * 100, den |-> GraphSteps]),
         stopColor |-> getEmotionColor(intensityAt(props.data, props.duration + props.currentTime, i - 1))]]

\* TimelineGraph.tsx 72-90: the gradient stops, i = 0..steps
emotionStops(props) ==
    [i \in 1..(GraphSteps + 1) |->
        [offset |-> Reduce([num |-> (i - 1) * 100, den |-> GraphSteps]),
         stopColor |-> getEmotionColor(intensityAt(props.data, props.duration, i - 1))]]

\* TimelineGraph.tsx 115: Math.sin(i * 0.4) * Math.cos(i * 0.15), in hundredths
UnitNoise == <<0, 38, 69, 84, 82, 67, 42, 12>>

\* TimelineGraph.tsx 103-120: the points of the polygon, i = 0..steps;
\* height is 60 at both call sites
complexityPoints(props) ==
    [i \in 1..(GraphSteps + 1) |->
        LET intensity == intensityAt(props.data, props.duration, i - 1)
            height == R(60)
            noise == Reduce(RMul(Reduce(RMul([num |-> UnitNoise[i], den |-> 100], intensity)),
                                 props.noiseFactor))
            body == Reduce(RMul(Reduce(RMul(intensity, height)),
                                Reduce(RAdd(R(1), RNeg(props.noiseFactor)))))
            y == Reduce(RAdd(Reduce(RAdd(height, RNeg(body))), RNeg(Reduce(RMul(height, noise)))))
        IN  [x |-> Reduce([num |-> (i - 1) * 100, den |-> GraphSteps]),
             y |-> IF RLt(y, R(0)) THEN R(0) ELSE IF RLt(height, y) THEN height ELSE y]]

\* TimelineGraph.tsx 29-37, 70-135: one render.  With no keyframe findSegment
\* returns undefined for start and `start.intensity` (line 34) throws
renderTimeline(props) ==
    IF Len(props.data) = 0
    THEN [error |-> "TypeError", stops |-> <<>>]
    ELSE [error |-> "none",
          stops |-> IF props.type = "emotion" THEN emotionStops(props) ELSE complexityPoints(props)]

GraphPropsSet ==
    [data : GraphTracks, type : GraphTypes, duration : GraphDurations,
     currentTime : GraphTimes, noiseFactor : NoiseFactors]

InitGraph ==
    /\ graphProps \in GraphPropsSet
    /\ hoverInfo = Null
    /\ graphOut = renderTimeline(graphProps)
    /\ graphPrev = Null
    /\ SamplerIdle /\ InterpIdle /\ ViewIdle /\ PoseIdle /\ PlayIdle /\ SitesIdle

\* the playhead moves: a render with another currentTime
graphTimeUpdate ==
    /\ \E t \in GraphTimes \ {graphProps.currentTime} :
         graphProps' = [graphProps EXCEPT !.currentTime = t]
    /\ graphOut' = renderTimeline(graphProps')
    /\ graphPrev' = [props |-> graphProps, out |-> graphOut]
    /\ UNCHANGED <<hoverInfo, samplerVars, interpVars, viewVars, poseVars, playVars, siteVars>>

\* TimelineGraph.tsx 39-60: the pointer moves over the graph or leaves it;
\* the state change renders again
graphHover ==
    /\ \E h \in {Null, [x |-> 0], [x |-> 1]} \ {hoverInfo} :
         /\ h # Null => Len(graphProps.data) > 0
         /\ hoverInfo' = h
    /\ graphOut' = renderTimeline(graphProps)
    /\ graphPrev' = [props |-> graphProps, out |-> graphOut]
    /\ UNCHANGED <<graphProps, samplerVars, interpVars, viewVars, poseVars, playVars, siteVars>>

\* the parent passes other keyframes, another duration or another type
graphDataChanged ==
    /\ \E d \in GraphTracks, n \in GraphDurations, ty \in GraphTypes :
         /\ <<d, n, ty>> # <<graphProps.data, graphProps.duration, graphProps.type>>
         /\ graphProps' = [graphProps EXCEPT !.data = d, !.duration = n, !.type = ty]
    /\ graphOut' = renderTimeline(graphProps')
    /\ graphPrev' = [props |-> graphProps, out |-> graphOut]
    /\ UNCHANGED <<hoverInfo, samplerVars, interpVars, viewVars, poseVars, playVars, siteVars>>

NextGraph == graphTimeUpdate \/ graphHover \/ graphDataChanged

SpecGraph == InitGraph /\ [][NextGraph]_vars

\* every element of the sequence has the same value of its varying field
Flat(stops, type) ==
    \A i, j \in 1..Len(stops) :
        IF type = "emotion" THEN stops[i].stopColor = stops[j].stopColor
        ELSE stops[i].y = stops[j].y

\* C17: for 0 or 1 keyframes both derivation modes render a flat output
\* without error: one color at every stop of the color ramp, one vertical
\* offset at every point of the noisy curve.
C17_FewKeyframesRenderFlat ==
    (graphProps # Null /\ Len(graphProps.data) < 2) =>
        /\ graphOut.error = "none"
        /\ Flat(graphOut.stops, graphProps.type)

\* C18: two derivations of the color ramp from the same keyframes, duration
\* and step count yield the same sequence of (offset, color) stops, whatever
\* currentTime, hover state and earlier renders were.
C18_ColorRampDeterministic ==
    (/\ graphPrev # Null
     /\ graphProps.type = "emotion" /\ graphPrev.props.type = "emotion"
     /\ graphPrev.props.data = graphProps.data
     /\ graphPrev.props.duration = graphProps.duration) =>
        graphOut = graphPrev.out

\* two renders of a ramp with several colors, at different playhead times
C18_Witness ==
    /\ graphPrev # Null
    /\ graphProps.type = "emotion" /\ graphPrev.props.type = "emotion"
    /\ graphPrev.props.data = graphProps.data
    /\ graphPrev.props.duration = graphProps.duration
    /\ graphPrev.props.currentTime # graphProps.currentTime
    /\ graphOut.error = "none"
    /\ ~Flat(graphOut.stops, "emotion")
    /\ graphOut = graphPrev.out

\* ------------------------------------------------ playback specification
\* the clock of App: the hook useVideoPlayback, the scene App holds, the
\* video element the hook reads and writes, and the layout analysis of the
\* loaded scene

\* times are counted in halves of a second, the TIME_OFFSET of App.tsx 308
TicksPerSecond == 2

\* part_001 16, 80, 136: the duration of every built-in preset, in seconds
PresetDuration == 60

\* App.tsx 307-308
FRAME_COUNT == 3
TIME_OFFSET == TicksPerSecond \div 2

\* the step of the playing media between two timeupdate events
PlayStep == (PresetDuration * TicksPerSecond) \div 2

\* the longest media, in steps
MaxMedia == 4

\* calls of handleAnalyzeScene in a behaviour
MaxAnalyses == 2

\* lengths of the media a source can hold
MediaDurations == { k * PlayStep : k \in 1..MaxMedia }

\* AIDirectorChat.tsx 110: timestamps of the action buttons of the chat
Timestamps == { k * PlayStep : k \in 0..MaxMedia }

\* PlaybackControls (part_016 18-19) and TimelineGraph.tsx 66-67: the
\* pointer position along the timeline, in halves of its width
Percentages == 0..2

\* part_002 27
clampedTime(newTime) == Max2(0, Min2(playbackDuration, newTime))

\* App.tsx 592-616: the render samples the blocking and camera tracks at the
\* hook's currentTime as it is
consumedTime == playbackTime

\* App.tsx 41, 62-64 and 111, part_002 9-11: the first preset is loaded
\* without an analysis, the hook starts at 0 with duration 0, the element
\* starts loading the preset's video
InitPlayback ==
    /\ playbackTime = 0
    /\ playbackDuration = 0
    /\ sceneDuration = PresetDuration * TicksPerSecond
    /\ videoTime = 0
    /\ mediaDuration \in MediaDurations
    /\ metadataPending = TRUE
    /\ sceneAnalysis = Null /\ isAnalyzing = FALSE /\ analysisError = Null /\ analyses = {}
    /\ analysisCalls = 0
    /\ SamplerIdle /\ InterpIdle /\ ViewIdle /\ PoseIdle /\ GraphIdle /\ SitesIdle

\* the element plays (part_002 37-45 starts it): its clock advances up to
\* the end of the media
videoPlays ==
    /\ ~metadataPending
    /\ videoTime < mediaDuration
    /\ videoTime' = Min2(videoTime + PlayStep, mediaDuration)
    /\ UNCHANGED <<playbackTime, playbackDuration, sceneDuration, mediaDuration, metadataPending,
                   analysisVars, samplerVars, interpVars, viewVars, poseVars, graphVars, siteVars>>

\* part_002 17-21
handleTimeUpdate ==
    /\ playbackTime' = videoTime
    /\ UNCHANGED <<playbackDuration, sceneDuration, videoTime, mediaDuration, metadataPending,
                   analysisVars, samplerVars, interpVars, viewVars, poseVars, graphVars, siteVars>>

\* the times a seek can ask for: a press on a timeline (part_016 14-22 and
\* TimelineGraph.tsx 62-68, wired at App.tsx 703-704 and 731-733) asks for a
\* fraction of the scene's duration, an action of the chat (App.tsx 570-571)
\* for its timestamp
SeekTimes == Timestamps \cup { (pct * sceneDuration) \div 2 : pct \in Percentages }

\* part_002 26-32; the element keeps a position within its media
handleScrub ==
    \E newTime \in SeekTimes :
        /\ playbackTime' = clampedTime(newTime)
        /\ videoTime' = Min2(clampedTime(newTime), mediaDuration)
        /\ UNCHANGED <<playbackDuration, sceneDuration, mediaDuration, metadataPending,
                       analysisVars, samplerVars, interpVars, viewVars, poseVars, graphVars, siteVars>>

\* App.tsx 141-168, the part of resetAllAnalysis on the layout analysis; the
\* calls that wait for their answer now hold frames of a scene that is gone
staleAnalyses == { [a EXCEPT !.stale = TRUE] : a \in analyses }

\* App.tsx 170-181; the element loads the preset's video
handlePresetChange ==
    /\ sceneDuration' = PresetDuration * TicksPerSecond
    /\ playbackDuration' = PresetDuration * TicksPerSecond
    /\ playbackTime' = 0
    /\ videoTime' = 0
    /\ mediaDuration' \in MediaDurations
    /\ metadataPending' = TRUE
    /\ sceneAnalysis' = Null /\ analysisError' = Null
    /\ analyses' = staleAnalyses
    /\ UNCHANGED <<isAnalyzing, analysisCalls, samplerVars, interpVars, viewVars, poseVars, graphVars, siteVars>>

\* App.tsx 183-198: the scene of a custom video starts with duration 0 and
\* the hook's duration is left as it was; the element loads the file
handleVideoFileChange ==
    /\ sceneDuration' = 0
    /\ playbackTime' = 0
    /\ videoTime' = 0
    /\ mediaDuration' \in MediaDurations
    /\ metadataPending' = TRUE
    /\ sceneAnalysis' = Null /\ analysisError' = Null
    /\ analyses' = staleAnalyses
    /\ UNCHANGED <<playbackDuration, isAnalyzing, analysisCalls, samplerVars, interpVars, viewVars, poseVars, graphVars, siteVars>>

\* App.tsx 200-206, passed as onMetadataLoaded at App.tsx 691
handleVideoMetadataLoaded ==
    /\ metadataPending
    /\ metadataPending' = FALSE
    /\ playbackDuration' = mediaDuration
    /\ sceneDuration' = mediaDuration
    /\ UNCHANGED <<playbackTime, videoTime, mediaDuration,
                   analysisVars, samplerVars, interpVars, viewVars, poseVars, graphVars, siteVars>>

\* App.tsx 311-314: the time of frame i (from 0) around originalTime
frameTimestamp(originalTime, i) ==
    Max2(0, Min2(sceneDuration, originalTime + (i - FRAME_COUNT \div 2) * TIME_OFFSET))

\* App.tsx 292-323 and 247-268: the call up to the await of
\* analyzeSceneLayout. The button of DataPanel.tsx 126-129 is disabled while
\* an analysis runs, the action of the chat (App.tsx 579-580) is not. Each
\* captureFrame seeks the element, which is left at the last frame's time.
handleAnalyzeScene ==
    /\ sceneDuration > 0
    /\ analysisCalls < MaxAnalyses
    /\ analysisCalls' = analysisCalls + 1
    /\ isAnalyzing' = TRUE
    /\ analysisError' = Null
    /\ sceneAnalysis' = Null
    /\ videoTime' = Min2(frameTimestamp(videoTime, FRAME_COUNT - 1), mediaDuration)
    /\ analyses' = analyses \cup {[id |-> analysisCalls + 1, originalTime |-> videoTime, stale |-> FALSE]}
    /\ UNCHANGED <<playbackTime, playbackDuration, sceneDuration, mediaDuration, metadataPending,
                   samplerVars, interpVars, viewVars, poseVars, graphVars, siteVars>>

\* App.tsx 324-325 and 332-339: analyzeSceneLayout answers; the result is
\* stored and the finally block seeks the element back
analysisResolves ==
    /\ \E a \in analyses :
         /\ analyses' = analyses \ {a}
         /\ sceneAnalysis' = [ofSceneBefore |-> a.stale]
         /\ videoTime' = Min2(a.originalTime, mediaDuration)
    /\ isAnalyzing' = FALSE
    /\ UNCHANGED <<playbackTime, playbackDuration, sceneDuration, mediaDuration, metadataPending,
                   analysisError, analysisCalls, samplerVars, interpVars, viewVars, poseVars, graphVars, siteVars>>

\* App.tsx 329-339: a frame capture or analyzeSceneLayout fails
analysisRejects ==
    /\ \E a \in analyses :
         /\ analyses' = analyses \ {a}
         /\ videoTime' = Min2(a.originalTime, mediaDuration)
    /\ analysisError' = "Failed to analyze the scene. Check your API key configuration or try again."
    /\ isAnalyzing' = FALSE
    /\ UNCHANGED <<playbackTime, playbackDuration, sceneDuration, mediaDuration, metadataPending,
                   sceneAnalysis, analysisCalls, samplerVars, interpVars, viewVars, poseVars, graphVars, siteVars>>

NextPlayback ==
    \/ videoPlays
    \/ handleTimeUpdate
    \/ handleScrub
    \/ handlePresetChange
    \/ handleVideoFileChange
    \/ handleVideoMetadataLoaded
    \/ handleAnalyzeScene
    \/ analysisResolves
    \/ analysisRejects

SpecPlayback == InitPlayback /\ [][NextPlayback]_vars

\* C19: in every reachable state, after any sequence of time updates, seeks,
\* preset changes, video-file loads and metadata loads, the currentTime the
\* sampler consumes lies within [0, duration] of the loaded scene.
C19_ConsumedTimeWithinScene ==
    consumedTime >= 0 /\ consumedTime <= sceneDuration

\* C21: after a preset change or a video-file change the layout analysis is
\* absent and stays absent until an analysis requested after the change
\* completes; the answer to a request issued before the change never
\* installs an analysis for the new scene.
C21_NoAnalysisOfSceneBefore ==
    sceneAnalysis # Null => ~sceneAnalysis.ofSceneBefore

\* C29: the duration used to clamp seeks always equals the duration of the
\* loaded scene: in every reachable state, from the initial state through
\* any sequence of preset changes, video-file loads and metadata-loaded
\* events, the hook's duration equals currentSceneData.duration, so a seek
\* to t sets currentTime to min(max(t, 0), scene duration).
C29_SeekClampsToSceneDuration ==
    /\ playbackDuration = sceneDuration
    /\ \A newTime \in SeekTimes : clampedTime(newTime) = Max2(0, Min2(sceneDuration, newTime))

\* ------------------------------------------- call sites of findSegment
\* one render of App and of DataPanel over the scene App holds

\* emotion tracks: of a preset (constants.ts 21-27) and as the emotional
\* arc analysis can return them, empty included
PresetEmotion ==
    <<[time |-> 0, intensity |-> 0, label |-> "Neutral"],
      [time |-> 1, intensity |-> 1, label |-> "Anger"]>>
SuppliedEmotions ==
    {<<>>, <<[time |-> 0, intensity |-> 1, label |-> "Surprise"]>>, PresetEmotion}

\* constants.ts 4-50: a preset's scene, every track with keyframes
PresetScene ==
    [characters |->
        <<[id |-> "char1", blocking |-> ExampleTrack, emotion |-> PresetEmotion],
          [id |-> "char2", blocking |-> ExampleTrack, emotion |-> PresetEmotion]>>,
     camera |-> [movement |-> CameraTrack(ExampleTrack)]]

\* App.tsx 22-25 and 187-191: the scene of a custom video
EmptyScene == [characters |-> <<>>, camera |-> [movement |-> <<>>]]

CharacterIds == {"char1", "char2"}

\* App.tsx 115-139: the scene with the analysed emotion tracks put in place
\* of the characters' own (an empty array is truthy and replaces the track;
\* a character the analysis does not name keeps its own)
activeSceneData(sceneData, arcs) ==
    IF arcs = Null THEN sceneData
    ELSE [sceneData EXCEPT !.characters =
            [k \in 1..Len(sceneData.characters) |->
                IF sceneData.characters[k].id \in DOMAIN arcs
                THEN [sceneData.characters[k] EXCEPT !.emotion = arcs[sceneData.characters[k].id]]
                ELSE sceneData.characters[k]]]

\* TimelineGraph.tsx 33: the component calls findSegment on its data
timelineGraphCall(site, data, t) == [site |-> site, data |-> data, currentTime |-> t]

\* App.tsx 592-626 and 724-750: the calls of App's render
appCalls(sc, opts, t) ==
    { [site |-> "App.characterPositions", data |-> sc.characters[k].blocking, currentTime |-> t] :
        k \in { j \in 1..Len(sc.characters) : Len(sc.characters[j].blocking) # 0 } }
    \cup (IF Len(sc.camera.movement) > 0
          THEN {[site |-> "App.currentCameraPosition", data |-> sc.camera.movement, currentTime |-> t]}
          ELSE {})
    \cup { [site |-> "App.totalEmotionalIntensity", data |-> sc.characters[k].emotion, currentTime |-> t] :
            k \in { j \in 1..Len(sc.characters) : Len(sc.characters[j].emotion) # 0 } }
    \cup (IF opts.showCameraPath /\ Len(sc.camera.movement) > 0
          THEN {timelineGraphCall("App.TimelineGraph.camera", sc.camera.movement, t)}
          ELSE {})
    \cup (IF opts.showEmotionData
          THEN { timelineGraphCall("App.TimelineGraph.emotion", sc.characters[k].emotion, t) :
                   k \in { j \in 1..Len(sc.characters) : Len(sc.characters[j].emotion) > 0 } }
          ELSE {})

\* DataPanel.tsx 75-80 and 247-269: the calls of DataPanel's render over
\* its sceneData prop
dataPanelCalls(sc, opts, t) ==
    { [site |-> "DataPanel.totalEmotionalIntensity", data |-> sc.characters[k].emotion, currentTime |-> t] :
        k \in 1..Len(sc.characters) }
    \cup (IF opts.showCameraPath
          THEN {timelineGraphCall("DataPanel.TimelineGraph.camera", sc.camera.movement, t)}
          ELSE {})
    \cup (IF opts.showEmotionData
          THEN { timelineGraphCall("DataPanel.TimelineGraph.emotion", sc.characters[k].emotion, t) :
                   k \in 1..Len(sc.characters) }
          ELSE {})

renderCalls(sceneData, arcs, opts, t) ==
    appCalls(activeSceneData(sceneData, arcs), opts, t)
    \cup dataPanelCalls(activeSceneData(sceneData, arcs), opts, t)

\* App.tsx 40-41, 85 and part_001 193-196: the first preset, no emotional
\* arc analysis, every layer shown, at time 0
InitSites ==
    /\ currentSceneData = PresetScene
    /\ emotionalArcAnalysis = Null
    /\ viewOptions = [showCameraPath |-> TRUE, showEmotionData |-> TRUE]
    /\ renderTime = 0
    /\ segmentCalls = renderCalls(currentSceneData, emotionalArcAnalysis, viewOptions, renderTime)
    /\ SamplerIdle /\ InterpIdle /\ ViewIdle /\ PoseIdle /\ GraphIdle /\ PlayIdle

\* App.tsx 170-198: a preset or a custom video is loaded; resetAllAnalysis
\* drops the emotional arc analysis and the time goes back to 0
setCurrentSceneData ==
    /\ \E sceneData \in {PresetScene, EmptyScene} : currentSceneData' = sceneData
    /\ emotionalArcAnalysis' = Null
    /\ renderTime' = 0
    /\ segmentCalls' = renderCalls(currentSceneData', emotionalArcAnalysis', viewOptions, renderTime')
    /\ UNCHANGED <<viewOptions, samplerVars, interpVars, viewVars, poseVars, graphVars, playVars>>

\* App.tsx 420-451: the emotional arc analysis of the scene's characters answers
setEmotionalArcAnalysis ==
    /\ Len(currentSceneData.characters) > 0
    /\ \E ids \in SUBSET CharacterIds \ {{}} : \E result \in [ids -> SuppliedEmotions] :
         /\ result # emotionalArcAnalysis
         /\ emotionalArcAnalysis' = result
    /\ segmentCalls' = renderCalls(currentSceneData, emotionalArcAnalysis', viewOptions, renderTime)
    /\ UNCHANGED <<currentSceneData, viewOptions, renderTime,
                   samplerVars, interpVars, viewVars, poseVars, graphVars, playVars>>

\* App.tsx 710-711: a toggle of the camera path or of the emotion curves
setShowOption ==
    /\ \E opts \in [showCameraPath : BOOLEAN, showEmotionData : BOOLEAN] :
         /\ opts # viewOptions
         /\ (opts.showCameraPath = viewOptions.showCameraPath
             \/ opts.showEmotionData = viewOptions.showEmotionData)
         /\ viewOptions' = opts
    /\ segmentCalls' = renderCalls(currentSceneData, emotionalArcAnalysis, viewOptions', renderTime)
    /\ UNCHANGED <<currentSceneData, emotionalArcAnalysis, renderTime,
                   samplerVars, interpVars, viewVars, poseVars, graphVars, playVars>>

\* part_002 17-21: the clock reports another currentTime
renderTimeUpdate ==
    /\ \E t \in 0..MaxKfTime : t # renderTime /\ renderTime' = t
    /\ segmentCalls' = renderCalls(currentSceneData, emotionalArcAnalysis, viewOptions, renderTime')
    /\ UNCHANGED <<currentSceneData, emotionalArcAnalysis, viewOptions,
                   samplerVars, interpVars, viewVars, poseVars, graphVars, playVars>>

NextSites == setCurrentSceneData \/ setEmotionalArcAnalysis \/ setShowOption \/ renderTimeUpdate

SpecSites == InitSites /\ [][NextSites]_vars

\* C27: no call of findSegment ever receives an empty sequence: in every
\* reachable state (any preset, a custom video with no characters or camera
\* keyframes, AI-supplied emotion tracks that may be empty) each call site
\* is guarded by a non-emptiness check or is rendered only when the track
\* is non-empty.
C27_NoEmptySequenceReachesFindSegment ==
    \A c \in segmentCalls : Len(c.data) > 0

====
